---- MODULE Spec2Model ----
(***************************************************************************)
(* figma-to-atomic: the run of the CLI (src/src/cli.ts) through            *)
(* FigmaToAtomic.analyze (src/index.ts) and its six steps, the element-list *)
(* decoder of step 3, the generation decoder of step 5 and the grouping    *)
(* engine.  Spec is the run and FairSpec the run in which every request    *)
(* settles; SpecGroup, SpecDecoder, SpecGenerate and SpecName apply the    *)
(* grouping engine, the decoders, generateAtomicComponent and              *)
(* convertToPascalCase to bounded sets of inputs.  SpecPrompt applies      *)
(* loadPrompt to template files, SpecShowcase generateComponentShowcase to *)
(* project directories, SpecRegroup the grouping engine several times,     *)
(* SpecPaths the two directory names of an atom, and SpecAgent is the      *)
(* start of the older agent (src/figma-agent.ts).                          *)
(*                                                                         *)
(* A request and its reply are one step: the action of a request picks its *)
(* outcome and runs the code up to the next await.  A value that can be    *)
(* null in the code is a sequence of length 0 or 1.                        *)
(*                                                                         *)
(* Text is modelled as a sequence of lexemes.  A lexeme is a one-character *)
(* string for the characters the code looks at (":", "|", "-", " ", "\n"), *)
(* a marker such as "---COMPONENTS---" kept whole, or a run of ordinary    *)
(* characters ("button", "10").  Decoded keys and values are joined back   *)
(* into strings, so the id 10:20 is the string "10:20".                    *)
(***************************************************************************)
EXTENDS Integers, Sequences, FiniteSets, TLC

VARIABLES
    pc,                     \* position of main()/analyze() between awaits
    figmaToken,             \* FigmaToAtomic.figmaToken ("" when missing)
    claudeApiKey,           \* FigmaToAtomic.claudeApiKey ("" when missing)
    figmaUrl,               \* the reference string given on the command line
    validShadcnComponents,  \* FigmaToAtomic.validShadcnComponents
    pageData,               \* <<document node>> fetched in step 2, <<>> before
    sections,               \* result of identifyFigmaSections
    discoveredAtoms,        \* result of discoverAtoms, argument of groupAtomsByType
    componentGroups,        \* result of groupAtomsByType
    i,                      \* loop index of generateComponents (1-based)
    tokenVariantData,       \* <<analysisData>> of the group being processed, <<>> for null
    processedComponents,    \* number of entries pushed by generateComponents
    figmaRequests,          \* requests sent to api.figma.com
    claudeRequests,         \* requests sent to api.anthropic.com
    files,                  \* paths written by steps 3 to 6
    log,                    \* requests sent, files written and stage results, in order
    exitCode,               \* process exit code, -1 while running
    abortCause,             \* what made analyze() reject / main() exit(1)
    fnPc, fnIn, fnOut       \* harness of the pure-function specifications

pipeVars == <<pc, figmaToken, claudeApiKey, figmaUrl, validShadcnComponents,
              pageData, sections, discoveredAtoms, componentGroups, i, tokenVariantData,
              processedComponents, figmaRequests, claudeRequests, files,
              log, exitCode, abortCause>>
fnVars == <<fnPc, fnIn, fnOut>>
vars == <<pipeVars, fnVars>>

-----------------------------------------------------------------------------
(* Bounds *)

MaxAtoms == 3
MaxLines == 2
MaxSections == 2
MaxNameLen == 4
MaxTemplateLines == 3

-----------------------------------------------------------------------------
(* String primitives of the JavaScript runtime, on lexeme sequences *)

RECURSIVE Join(_)
Join(s) == IF s = <<>> THEN "" ELSE Head(s) \o Join(Tail(s))

IsSpace(c) == c \in {" ", "\n", "\t"}

RECURSIVE trimStart(_)
trimStart(s) == IF s # <<>> /\ IsSpace(Head(s)) THEN trimStart(Tail(s)) ELSE s

RECURSIVE trimEnd(_)
trimEnd(s) ==
    IF s # <<>> /\ IsSpace(s[Len(s)]) THEN trimEnd(SubSeq(s, 1, Len(s) - 1)) ELSE s

trim(s) == trimEnd(trimStart(s))

\* s.indexOf(c, from): 0-based position of the first c at or after from, or -1
RECURSIVE indexOfFrom(_, _, _)
indexOfFrom(s, c, from) ==
    IF from >= Len(s) THEN -1
    ELSE IF s[from + 1] = c THEN from
    ELSE indexOfFrom(s, c, from + 1)

indexOf(s, c) == indexOfFrom(s, c, 0)

includes(s, c) == indexOf(s, c) >= 0

\* s.substring(a, b), 0-based, b exclusive
substring(s, a, b) == SubSeq(s, a + 1, b)

\* s.split(sep) for a one-character separator
RECURSIVE splitFrom(_, _, _)
splitFrom(s, sep, cur) ==
    IF s = <<>> THEN <<cur>>
    ELSE IF Head(s) = sep THEN <<cur>> \o splitFrom(Tail(s), sep, <<>>)
    ELSE splitFrom(Tail(s), sep, Append(cur, Head(s)))

split(s, sep) == splitFrom(s, sep, <<>>)

\* JavaScript objects with string keys
EmptyObject == <<>>
Put(obj, k, v) == [x \in (DOMAIN obj) \cup {k} |-> IF x = k THEN v ELSE obj[x]]
Has(obj, k) == k \in DOMAIN obj

-----------------------------------------------------------------------------
(* Step 3: the element-list decoder inside identifyAtoms *)

COMPONENTS == "---COMPONENTS---"
SUMMARY == "---SUMMARY---"

\* content.match(/---COMPONENTS---([\s\S]*?)---SUMMARY---/): <<>> for null,
\* otherwise <<capture group 1>>
componentsMatch(content) ==
    LET p == indexOf(content, COMPONENTS)
        q == IF p < 0 THEN -1 ELSE indexOfFrom(content, SUMMARY, p + 1)
    IN  IF p < 0 \/ q < 0 THEN <<>> ELSE <<substring(content, p + 1, q)>>

\* componentsSection.split('\n').filter(line => line.trim())
RECURSIVE filterNonBlank(_)
filterNonBlank(ls) ==
    IF ls = <<>> THEN <<>>
    ELSE IF trim(Head(ls)) # <<>> THEN <<Head(ls)>> \o filterNonBlank(Tail(ls))
    ELSE filterNonBlank(Tail(ls))

lines(componentsSection) == filterNonBlank(split(componentsSection, "\n"))

\* one iteration of `for (const part of parts)`: split at the first colon
parsePart_lastColon(component, part) ==
    LET RECURSIVE lastIndexOf(_, _)
        lastIndexOf(s, k) ==
            IF k = 0 THEN -1 ELSE IF s[k] = ":" THEN k - 1 ELSE lastIndexOf(s, k - 1)
        colonIndex == lastIndexOf(part, Len(part))
        key == Join(trim(substring(part, 0, colonIndex)))
        value == Join(trim(substring(part, colonIndex + 1, Len(part))))
    IN  IF colonIndex > 0 /\ key # "" /\ value # ""
        THEN Put(component, key, value)
        ELSE component

\* part.split(':') with key = parts[0], value = parts[1]
parsePart_splitAllColons(component, part) ==
    LET parts == split(part, ":")
        key == Join(trim(parts[1]))
        value == IF Len(parts) >= 2 THEN Join(trim(parts[2])) ELSE ""
    IN  IF key # "" /\ value # ""
        THEN Put(component, key, value)
        ELSE component

parsePart(component, part) ==
    LET colonIndex == indexOf(part, ":")
        key == Join(trim(substring(part, 0, colonIndex)))
        value == Join(trim(substring(part, colonIndex + 1, Len(part))))
    IN  IF colonIndex > 0 /\ key # "" /\ value # ""
        THEN Put(component, key, value)
        ELSE component

RECURSIVE parseParts(_, _)
parseParts(component, parts) ==
    IF parts = <<>> THEN component
    ELSE parseParts(parsePart(component, Head(parts)), Tail(parts))

\* one iteration of `for (const line of lines)`: atoms after the line
parseLine_abortOnBad(atoms, line) ==
    LET trimmed == trim(line)
        component == parseParts(EmptyObject, split(trimmed, "|"))
    IN  IF trimmed # <<>> /\ includes(trimmed, "|")
           /\ Has(component, "id") /\ Has(component, "name") /\ Has(component, "type")
        THEN Append(atoms, component)
        ELSE <<>>

parseLine(atoms, line) ==
    LET trimmed == trim(line)
        component == parseParts(EmptyObject, split(trimmed, "|"))
    IN  IF trimmed # <<>> /\ includes(trimmed, "|")
           /\ Has(component, "id") /\ Has(component, "name") /\ Has(component, "type")
        THEN Append(atoms, component)
        ELSE atoms

RECURSIVE parseLines(_, _)
parseLines(atoms, ls) ==
    IF ls = <<>> THEN atoms ELSE parseLines(parseLine(atoms, Head(ls)), Tail(ls))

\* the atoms identifyAtoms returns for a completion reply `content`
decodeAtoms(content) ==
    LET m == componentsMatch(content)
    IN  IF m # <<>> THEN parseLines(<<>>, lines(trim(m[1]))) ELSE <<>>

-----------------------------------------------------------------------------
(* Grouping engine *)

\* body of `for (const atom of atoms)` in groupAtomsByType
groupAtom_lastRepresentative(groups, atom) ==
    LET componentType == atom.type
        has == \E g \in 1..Len(groups) : groups[g].type = componentType
        withNew == IF has THEN groups
                   ELSE Append(groups, [type |-> componentType,
                                        representative |-> atom,
                                        instances |-> <<>>])
        idx == CHOOSE g \in 1..Len(withNew) : withNew[g].type = componentType
    IN  [withNew EXCEPT ![idx].instances = Append(@, atom),
                        ![idx].representative = atom]

groupAtom_firstInstanceOnly(groups, atom) ==
    IF \E g \in 1..Len(groups) : groups[g].type = atom.type THEN groups
    ELSE Append(groups, [type |-> atom.type, representative |-> atom,
                         instances |-> <<atom>>])

groupAtom_noMerge(groups, atom) ==
    Append(groups, [type |-> atom.type, representative |-> atom, instances |-> <<atom>>])

groupAtom(groups, atom) ==
    LET componentType == atom.type
        has == \E g \in 1..Len(groups) : groups[g].type = componentType
        withNew == IF has THEN groups
                   ELSE Append(groups, [type |-> componentType,
                                        representative |-> atom,
                                        instances |-> <<>>])
        idx == CHOOSE g \in 1..Len(withNew) : withNew[g].type = componentType
    IN  [withNew EXCEPT ![idx].instances = Append(@, atom)]

RECURSIVE groupInto(_, _)
groupInto(groups, atoms) ==
    IF atoms = <<>> THEN groups
    ELSE groupInto(groupAtom(groups, Head(atoms)), Tail(atoms))

groupAtomsByType_sharedMap(atoms) ==
    groupInto(IF fnPc = "calls" /\ fnOut # <<>> THEN fnOut[Len(fnOut)].groups ELSE <<>>,
              atoms)

\* `new Map()`, the loop, `Array.from(componentGroups.values())`
groupAtomsByType(atoms) == groupInto(<<>>, atoms)

-----------------------------------------------------------------------------
(* Step 5: the generation decoder *)

Marker(sectionName) == "---" \o sectionName \o "---"

Markers == {Marker("SKIP"), Marker("COMPONENT"), Marker("CSS"), Marker("MAPPING"),
            Marker("EXAMPLE"), Marker("NOTES"), COMPONENTS, SUMMARY}

\* the lexeme of a code fence (three backquotes)
FENCE == "<fence>"

\* a lexeme whose first character is a hyphen
StartsWithHyphen(c) == c = "-" \/ c \in Markers

Max(S) == CHOOSE x \in S : \A y \in S : y <= x

\* \s* from 0-based position from: the end (exclusive) of the whitespace run
RECURSIVE skipSpaces(_, _)
skipSpaces(s, from) ==
    IF from < Len(s) /\ IsSpace(s[from + 1]) THEN skipSpaces(s, from + 1) ELSE from

\* [^\n-]+ from 0-based position from: the end (exclusive) of the greedy run
RECURSIVE runEnd(_, _)
runEnd(s, from) ==
    IF from < Len(s) /\ s[from + 1] # "\n" /\ ~StartsWithHyphen(s[from + 1])
    THEN runEnd(s, from + 1)
    ELSE from

\* 0-based position of the first lexeme of `set` at or after from, or Len(s)
RECURSIVE firstOf(_, _, _)
firstOf(s, set, from) ==
    IF from >= Len(s) THEN Len(s)
    ELSE IF s[from + 1] \in set THEN from
    ELSE firstOf(s, set, from + 1)

\* the tail \s*\n([^\n-]+) of a pattern whose marker sits at 0-based position p:
\* <<>> when it does not match there, else <<capture group 1>>.  The greedy \s*
\* gives up characters until a "\n" follows that starts a non-empty run.
lineMatchAt(s, p) ==
    LET e == skipSpaces(s, p + 1)
        cands == {k \in (p + 1)..(e - 1) : s[k + 1] = "\n" /\ runEnd(s, k + 1) > k + 1}
    IN  IF cands = {} THEN <<>>
        ELSE <<substring(s, Max(cands) + 1, runEnd(s, Max(cands) + 1))>>

\* the tail \s*\n([\s\S]*?)(?=---(?:endMarkers)---|$) for the marker at p
blockMatchAt(s, p, endMarkers) ==
    LET e == skipSpaces(s, p + 1)
        cands == {k \in (p + 1)..(e - 1) : s[k + 1] = "\n"}
    IN  IF cands = {} THEN <<>>
        ELSE <<substring(s, Max(cands) + 1, firstOf(s, endMarkers, Max(cands) + 1))>>

\* content.match(new RegExp(`---NAME---\\s*\\n([^\\n-]+)`)): leftmost occurrence
\* of the marker at which the tail matches
RECURSIVE lineMatchFrom(_, _, _)
lineMatchFrom(s, marker, from) ==
    LET p == indexOfFrom(s, marker, from)
    IN  IF p < 0 THEN <<>>
        ELSE IF lineMatchAt(s, p) # <<>> THEN lineMatchAt(s, p)
        ELSE lineMatchFrom(s, marker, p + 1)

RECURSIVE blockMatchFrom(_, _, _, _)
blockMatchFrom(s, marker, endMarkers, from) ==
    LET p == indexOfFrom(s, marker, from)
    IN  IF p < 0 THEN <<>>
        ELSE IF blockMatchAt(s, p, endMarkers) # <<>> THEN blockMatchAt(s, p, endMarkers)
        ELSE blockMatchFrom(s, marker, endMarkers, p + 1)

extractSection(content, sectionName, endMarkers) ==
    LET match == blockMatchFrom(content, Marker(sectionName),
                                {Marker(m) : m \in endMarkers}, 0)
    IN  IF match # <<>> THEN trim(match[1]) ELSE <<>>

extractSimpleSection(content, sectionName) ==
    LET match == lineMatchFrom(content, Marker(sectionName), 0)
    IN  IF match # <<>> THEN trim(match[1]) ELSE <<>>

\* undefined / absent fields of a ComponentGenerationResult
Undefined == <<"undefined">>

parseDelimiterFormat(content) ==
    LET skipMatch == lineMatchFrom(content, Marker("SKIP"), 0)
        shouldSkip == IF skipMatch # <<>> THEN trim(skipMatch[1]) \in {<<"true">>, <<"TRUE">>, <<"True">>}
                      ELSE FALSE
        componentCode == extractSection(content, "COMPONENT", {"CSS", "MAPPING"})
        updatedCSS == extractSection(content, "CSS", {"MAPPING", "EXAMPLE"})
        usageExample == extractSimpleSection(content, "EXAMPLE")
        notes == extractSimpleSection(content, "NOTES")
    IN  IF shouldSkip
        THEN [skipImplementation |-> TRUE, componentCode |-> Undefined,
              updatedCSS |-> Undefined, usageExample |-> Undefined, notes |-> Undefined]
        ELSE [skipImplementation |-> FALSE, componentCode |-> componentCode,
              updatedCSS |-> IF updatedCSS # <<>> THEN updatedCSS ELSE Undefined,
              usageExample |-> usageExample, notes |-> notes]

\* JSON documents the completion service may send, each one lexeme, with the
\* value JSON.parse gives for it
JsonGenerated == "{\"skipImplementation\":false,\"componentCode\":\"code\"}"
JsonSkipped == "{\"skipImplementation\":true}"
JsonNoBody == "{}"
JsonAtoms == "[{\"id\":\"1:10\",\"name\":\"Button 1\",\"type\":\"button\"}]"

JsonValue(doc) ==
    CASE doc = JsonGenerated ->
            [skipImplementation |-> FALSE, componentCode |-> <<"code">>,
             updatedCSS |-> Undefined, usageExample |-> Undefined, notes |-> Undefined]
      [] doc = JsonSkipped ->
            [skipImplementation |-> TRUE, componentCode |-> Undefined,
             updatedCSS |-> Undefined, usageExample |-> Undefined, notes |-> Undefined]
      [] doc \in {JsonNoBody, JsonAtoms} ->
            \* none of the keys the code reads; an absent skipImplementation is falsy
            [skipImplementation |-> FALSE, componentCode |-> Undefined,
             updatedCSS |-> Undefined, usageExample |-> Undefined, notes |-> Undefined]

JsonDocs == {JsonGenerated, JsonSkipped, JsonNoBody, JsonAtoms}

\* JSON.parse(text): <<>> when it throws, else <<value>>
JSONparse(text) ==
    IF Len(text) = 1 /\ text[1] \in JsonDocs THEN <<JsonValue(text[1])>> ELSE <<>>

\* content.match(/<fence>json\s*([\s\S]*?)\s*<fence>/): <<>> or <<capture group 1>>
RECURSIVE jsonFenceFrom(_, _)
jsonFenceFrom(s, from) ==
    LET p == indexOfFrom(s, FENCE, from)
    IN  IF p < 0 \/ p + 1 >= Len(s) THEN <<>>
        ELSE IF s[p + 2] = "json" /\ indexOfFrom(s, FENCE, p + 2) >= 0
        THEN <<trimEnd(substring(s, skipSpaces(s, p + 2), indexOfFrom(s, FENCE, p + 2)))>>
        ELSE jsonFenceFrom(s, p + 1)

\* parseJSONFormat: <<>> for null, else <<result>>
parseJSONFormat_unfenced(content) ==
    LET docs == {k \in 1..Len(content) : content[k] \in JsonDocs}
    IN  IF docs = {} THEN <<>>
        ELSE <<JsonValue(content[CHOOSE k \in docs : \A j \in docs : k <= j])>>

parseJSONFormat(content) ==
    LET jsonMatch == jsonFenceFrom(content, 0)
    IN  IF jsonMatch = <<>> THEN <<>> ELSE JSONparse(trim(jsonMatch[1]))

\* parseClaudeResponse: <<>> for null, else <<result>>
parseClaudeResponse(content) ==
    IF includes(content, Marker("SKIP")) \/ includes(content, Marker("COMPONENT"))
    THEN <<parseDelimiterFormat(content)>>
    ELSE parseJSONFormat(content)

\* Names are sequences of characters here.  toUpperCase and toLowerCase of one
\* character, and the class [a-zA-Z0-9]
toUpperCase(c) == CASE c = "a" -> "A" [] c = "b" -> "B" [] OTHER -> c
toLowerCase(c) == CASE c = "A" -> "a" [] c = "B" -> "b" [] OTHER -> c
IsAlphaNumeric(c) == c \in {"a", "b", "A", "B", "1", "2"}

\* name.split(/\s+|[-_]/): a run of white space is one separator, a hyphen or
\* an underscore is one separator each; `cur` is the piece being read
RECURSIVE splitWords(_, _)
splitWords(name, cur) ==
    IF name = <<>> THEN <<cur>>
    ELSE IF IsSpace(Head(name)) THEN <<cur>> \o splitWords(trimStart(name), <<>>)
    ELSE IF Head(name) \in {"-", "_"} THEN <<cur>> \o splitWords(Tail(name), <<>>)
    ELSE splitWords(Tail(name), Append(cur, Head(name)))

\* word.charAt(0).toUpperCase() + word.slice(1)
capitalizeWord_keepCase(word) ==
    IF word = <<>> THEN <<>>
    ELSE <<toUpperCase(Head(word))>> \o Tail(word)

\* word.charAt(0).toUpperCase() + word.slice(1).toLowerCase()
capitalizeWord(word) ==
    IF word = <<>> THEN <<>>
    ELSE <<toUpperCase(Head(word))>> \o [k \in 1..(Len(word) - 1) |-> toLowerCase(word[k + 1])]

RECURSIVE joinWords(_)
joinWords(words) ==
    IF words = <<>> THEN <<>> ELSE capitalizeWord(Head(words)) \o joinWords(Tail(words))

\* convertToPascalCase(name)
convertToPascalCase(name) ==
    SelectSeq(joinWords(splitWords(name, <<>>)), IsAlphaNumeric)

-----------------------------------------------------------------------------
(* Step 1: credentials and the reference string *)

\* A reference string: whether `new URL(url)` accepts it, the value of its
\* node-id query parameter (<<>> when absent, else <<lexemes>>) and its path.
replaceFirst(s, a, b) ==
    IF indexOf(s, a) < 0 THEN s ELSE [s EXCEPT ![indexOf(s, a) + 1] = b]

ParseFailure == [ok |-> FALSE, nodeId |-> "", fileKey |-> ""]

\* parseUrl: ok = FALSE when it throws; undefined is written ""
parseUrl_noCheck(url) ==
    IF ~url.parses THEN ParseFailure
    ELSE [ok |-> TRUE,
          nodeId |-> IF url.nodeIdParam = <<>> THEN ""
                     ELSE Join(replaceFirst(url.nodeIdParam[1], "-", ":")),
          fileKey |-> IF Len(split(url.pathname, "/")) >= 3
                      THEN Join(split(url.pathname, "/")[3]) ELSE ""]

parseUrl(url) ==
    IF ~url.parses THEN ParseFailure
    ELSE LET nodeId == IF url.nodeIdParam = <<>> THEN ""
                       ELSE Join(replaceFirst(url.nodeIdParam[1], "-", ":"))
             pathParts == split(url.pathname, "/")
             fileKey == IF Len(pathParts) >= 3 THEN Join(pathParts[3]) ELSE ""
         IN  IF nodeId = "" \/ fileKey = "" THEN ParseFailure
             ELSE [ok |-> TRUE, nodeId |-> nodeId, fileKey |-> fileKey]

\* validateApiKeys: TRUE when it returns, FALSE when it throws
validateApiKeys(token, key) == token # "" /\ key # ""

\* loadShadcnComponents: the names listed in lib/resources/shadcn-components.md
ShadcnComponents ==
    {"accordion", "breadcrumb", "navigation-menu", "menubar", "sidebar", "tabs",
     "button", "checkbox", "combobox", "form", "input", "input-otp", "label",
     "radio-group", "select", "slider", "switch", "textarea", "toggle",
     "toggle-group", "alert", "avatar", "badge", "card", "progress", "separator",
     "skeleton", "table", "toast", "sonner", "alert-dialog", "dialog", "drawer",
     "dropdown-menu", "hover-card", "popover", "sheet", "tooltip", "context-menu",
     "calendar", "carousel", "chart", "command", "data-table", "date-picker",
     "pagination", "aspect-ratio", "collapsible", "resizable", "scroll-area",
     "typography"}

\* the resource file is found, or it is not (existsSync false, or a read error)
loadShadcnComponents(fileReadable) == IF fileReadable THEN ShadcnComponents ELSE {}

-----------------------------------------------------------------------------
(* Step 2: section identification *)

\* JSON arrays the completion service may send for the sections, one lexeme each
JsonNoSections == "[]"
JsonOneSection == "[{\"id\":\"1:2\",\"name\":\"Header\",\"type\":\"header\"}]"
JsonTwoSections == "[{\"id\":\"1:2\",..header},{\"id\":\"1:3\",..content}]"
JsonBadArray == "[not json]"

SectionDocs == {JsonNoSections, JsonOneSection, JsonTwoSections}

SectionsValue(doc) ==
    CASE doc = JsonNoSections -> <<>>
      [] doc = JsonOneSection -> <<[id |-> "1:2", name |-> "Header", type |-> "header"]>>
      [] doc = JsonTwoSections -> <<[id |-> "1:2", name |-> "Header", type |-> "header"],
                                    [id |-> "1:3", name |-> "Main", type |-> "content"]>>

IsBracketed(c) == c \in SectionDocs \cup {JsonBadArray}

\* content.match(/\[.*\]/): the span from the first "[" to the last "]" of the
\* first line that has both; <<>> for null
RECURSIVE bracketMatch(_)
bracketMatch(ls) ==
    IF ls = <<>> THEN <<>>
    ELSE LET hits == {k \in 1..Len(Head(ls)) : IsBracketed(Head(ls)[k])}
         IN  IF hits = {} THEN bracketMatch(Tail(ls))
             ELSE <<SubSeq(Head(ls), CHOOSE k \in hits : \A j \in hits : k <= j, Max(hits))>>

\* child.name.replace(/[_-]/g, ' ')
RECURSIVE replaceSeparators(_)
replaceSeparators(name) ==
    IF name = <<>> THEN <<>>
    ELSE <<IF Head(name) \in {"_", "-"} THEN " " ELSE Head(name)>>
         \o replaceSeparators(Tail(name))

basicSectionType(lowerName, isFirst, isLast) ==
    IF isFirst /\ includes(lowerName, "header") THEN "header"
    ELSE IF isLast /\ includes(lowerName, "footer") THEN "footer"
    ELSE IF includes(lowerName, "hero") \/ includes(lowerName, "banner") THEN "hero"
    ELSE IF includes(lowerName, "nav") THEN "navigation"
    ELSE IF includes(lowerName, "content") \/ includes(lowerName, "product") THEN "content"
    ELSE "section"

\* basicSectionAnalysis(pageData); child names are lower-case lexemes
basicSectionAnalysis(page) ==
    [k \in 1..Len(page.children) |->
        LET name == trim(replaceSeparators(page.children[k].name))
        IN  [id |-> page.children[k].id,
             name |-> IF name # <<>> THEN Join(name) ELSE "Section " \o ToString(k),
             type |-> basicSectionType(name, k = 1, k = Len(page.children))]]

\* what identifySections returns for the reply text `content`
identifySections(page, content) ==
    LET jsonMatch == bracketMatch(split(content, "\n"))
    IN  IF jsonMatch # <<>> /\ Len(jsonMatch[1]) = 1 /\ jsonMatch[1][1] \in SectionDocs
        THEN SectionsValue(jsonMatch[1][1])
        ELSE basicSectionAnalysis(page)

-----------------------------------------------------------------------------
(* Step 6: the showcase *)

\* directory names under src/components/atoms, in localeCompare order
EntryOrder == <<"Badge", "Button">>

\* the loop of discoverAtomicComponents over readdirSync's entries; statSync
\* throws at entry statFailsAt (0: never) and the catch keeps what was pushed
RECURSIVE collectComponents(_, _, _)
collectComponents(entries, k, statFailsAt) ==
    IF k > Len(entries) \/ k = statFailsAt THEN <<>>
    ELSE (IF entries[k].isDirectory /\ entries[k].hasComponentFile
          THEN <<entries[k].name>> ELSE <<>>)
         \o collectComponents(entries, k + 1, statFailsAt)

\* components.sort((a, b) => a.name.localeCompare(b.name))
sortByName(components) ==
    LET at(n) == SelectSeq(components, LAMBDA c : c = EntryOrder[n])
    IN  at(1) \o at(2)

\* discoverAtomicComponents(projectDir): the names of the directories that
\* hold a component file (the type tag only feeds the prompt text)
discoverAtomicComponents(dir) ==
    IF ~dir.atomsDirectoryExists THEN <<>>
    ELSE sortByName(collectComponents(dir.entries, 1, dir.statFailsAt))

\* a lexeme made of word characters only
IsWordLexeme(c) == c \in {"tsx", "typescript", "javascript"}

\* 0-based position of the first "\n" followed by ---NOTES--- at or after
\* from, or Len(s)
RECURSIVE notesStart(_, _)
notesStart(s, from) ==
    IF from >= Len(s) THEN Len(s)
    ELSE IF s[from + 1] = "\n" /\ from + 1 < Len(s) /\ s[from + 2] = Marker("NOTES")
    THEN from
    ELSE notesStart(s, from + 1)

\* the tail \s*\n([\s\S]*?)(?:\n---NOTES---|$) for the marker at p
showcaseMatchAt(s, p) ==
    LET e == skipSpaces(s, p + 1)
        cands == {k \in (p + 1)..(e - 1) : s[k + 1] = "\n"}
    IN  IF cands = {} THEN <<>>
        ELSE <<substring(s, Max(cands) + 1, notesStart(s, Max(cands) + 1))>>

RECURSIVE showcaseMatchFrom(_, _)
showcaseMatchFrom(s, from) ==
    LET p == indexOfFrom(s, Marker("APP_CONTENT"), from)
    IN  IF p < 0 THEN <<>>
        ELSE IF showcaseMatchAt(s, p) # <<>> THEN showcaseMatchAt(s, p)
        ELSE showcaseMatchFrom(s, p + 1)

RECURSIVE dropWords(_)
dropWords(s) == IF s # <<>> /\ IsWordLexeme(Head(s)) THEN dropWords(Tail(s)) ELSE s

dropNewline(s) == IF s # <<>> /\ Head(s) = "\n" THEN Tail(s) ELSE s

RECURSIVE normalizeLineEndings(_)
normalizeLineEndings(s) ==
    IF s = <<>> THEN <<>>
    ELSE IF Head(s) = "\r" /\ Len(s) > 1 /\ s[2] = "\n"
    THEN <<"\n">> \o normalizeLineEndings(Tail(Tail(s)))
    ELSE <<IF Head(s) = "\r" THEN "\n" ELSE Head(s)>> \o normalizeLineEndings(Tail(s))

\* cleanupGeneratedCode(code)
cleanupGeneratedCode(code) ==
    LET opened == IF code # <<>> /\ Head(code) = FENCE
                  THEN dropNewline(dropWords(Tail(code))) ELSE code
        n == Len(opened)
        closed == IF n > 0 /\ opened[n] = FENCE
                  THEN (IF n > 1 /\ opened[n - 1] = "\n"
                        THEN SubSeq(opened, 1, n - 2) ELSE SubSeq(opened, 1, n - 1))
                  ELSE opened
        plain == IF Len(closed) > 1 /\ IsWordLexeme(closed[1]) /\ closed[2] = "\n"
                 THEN Tail(Tail(closed)) ELSE closed
    IN  trim(normalizeLineEndings(plain))

\* extractShowcaseContent(claudeResponse): <<>> for null, else <<content>>
extractShowcaseContent(claudeResponse) ==
    LET contentMatch == showcaseMatchFrom(claudeResponse, 0)
    IN  IF contentMatch = <<>> THEN <<>>
        ELSE <<cleanupGeneratedCode(trim(contentMatch[1]))>>

-----------------------------------------------------------------------------
(* The prompt loader *)

\* the text that `line.includes` looks for, one lexeme
AIPrompt == "## AI Prompt"

\* `{{KEY}}`, one lexeme
Placeholder(key) == "{{" \o key \o "}}"

\* the loop over the lines of the file: the lines after the first one that
\* includes the marker, each followed by "\n", without any line that includes
\* the marker
RECURSIVE promptSection(_, _)
promptSection(ls, inPromptSection) ==
    IF ls = <<>> THEN <<>>
    ELSE IF includes(Head(ls), AIPrompt) THEN promptSection(Tail(ls), TRUE)
    ELSE (IF inPromptSection THEN Head(ls) \o <<"\n">> ELSE <<>>)
         \o promptSection(Tail(ls), inPromptSection)

\* the replacement string of String.prototype.replace: `$$` stands for `$`
\* and `$&` for the matched text
RECURSIVE expandReplacement(_, _)
expandReplacement(value, matched) ==
    IF value = <<>> THEN <<>>
    ELSE (CASE Head(value) = "$$" -> <<"$">>
            [] Head(value) = "$&" -> <<matched>>
            [] OTHER -> <<Head(value)>>)
         \o expandReplacement(Tail(value), matched)

\* content.replace(new RegExp(placeholder, 'g'), value)
RECURSIVE replaceAll(_, _, _)
replaceAll(content, placeholder, value) ==
    IF content = <<>> THEN <<>>
    ELSE (IF Head(content) = placeholder THEN expandReplacement(value, placeholder)
          ELSE <<Head(content)>>)
         \o replaceAll(Tail(content), placeholder, value)

\* `for (const [key, value] of Object.entries(variables))`
RECURSIVE replaceVariables(_, _)
replaceVariables(content, entries) ==
    IF entries = <<>> THEN content
    ELSE replaceVariables(replaceAll(content, Placeholder(Head(entries).key),
                                     Head(entries).value),
                          Tail(entries))

\* loadPrompt(stepDir, variables): <<>> when it throws, else <<prompt text>>
loadPrompt(file, variables) ==
    IF ~file.readable THEN <<>>
    ELSE LET prompt == promptSection(split(file.content, "\n"), FALSE)
             content == IF trim(prompt) # <<>> THEN trim(prompt) ELSE file.content
         IN  <<trim(replaceVariables(content, variables))>>

-----------------------------------------------------------------------------
(* Inputs of a run *)

FigmaTokens == {"", "figd_token"}
ClaudeApiKeys == {"", "sk-ant-key"}

DesignPath == <<"/", "design", "/", "FILEKEY", "/", "Landing">>

FigmaUrls ==
    {[parses |-> TRUE,  nodeIdParam |-> <<<<"1", "-", "2">>>>, pathname |-> DesignPath],
     [parses |-> TRUE,  nodeIdParam |-> <<>>, pathname |-> DesignPath],
     [parses |-> TRUE,  nodeIdParam |-> <<<<>>>>, pathname |-> DesignPath],
     [parses |-> TRUE,  nodeIdParam |-> <<<<"1", "-", "2">>>>, pathname |-> <<"/", "design">>],
     [parses |-> FALSE, nodeIdParam |-> <<>>, pathname |-> <<>>]}

\* document nodes the design service may return for the page
Pages ==
    {[name |-> "Landing", children |-> <<>>],
     [name |-> "Landing", children |-> <<[id |-> "1:2", name |-> <<"header">>]>>],
     [name |-> "Landing", children |-> <<[id |-> "1:2", name |-> <<"top", "_", "nav">>],
                                         [id |-> "1:3", name |-> <<"footer">>]>>]}

\* reply texts of the completion service in step 2
SectionReplies ==
    {<<"I", " ", "see", " ", "one", " ", "section">>,
     <<"Sections", ":", "\n", JsonOneSection>>,
     <<JsonTwoSections>>,
     <<JsonNoSections>>,
     <<"Here", " ", JsonBadArray>>}

\* one list line `id:<id>|name:<name>|type:<type>` from lexeme values
renderLine(rec) ==
    <<"id", ":">> \o rec.id \o <<"|", "name", ":">> \o rec.name
                  \o <<"|", "type", ":">> \o rec.type

RECURSIVE joinLines(_)
joinLines(ls) ==
    IF ls = <<>> THEN <<>> ELSE Head(ls) \o <<"\n">> \o joinLines(Tail(ls))

\* a reply in the format the step 3 prompt asks for
renderComponents(ls, withSummary) ==
    <<"Found", ":", "\n", COMPONENTS, "\n">> \o joinLines(ls)
        \o (IF withSummary THEN <<"\n", SUMMARY, "\n", "Two", " ", "kinds">> ELSE <<>>)

Button1 == [id |-> <<"1", ":", "10">>, name |-> <<"Button", " ", "1">>, type |-> <<"button">>]
Button2 == [id |-> <<"1", ":", "11">>, name |-> <<"Button", " ", "2">>, type |-> <<"button">>]
IconA == [id |-> <<"1", ":", "12">>, name |-> <<"Icon", " ", "A">>, type |-> <<"icon">>]
Input1 == [id |-> <<"1", ":", "10">>, name |-> <<"Email">>, type |-> <<"input">>]

\* reply texts of the completion service in step 3
AtomReplies ==
    {renderComponents(<<renderLine(Button1), renderLine(Button2), renderLine(IconA)>>, TRUE),
     renderComponents(<<renderLine(Button1), renderLine(Input1)>>, TRUE),
     renderComponents(<<renderLine(Button1)>>, FALSE),
     renderComponents(<<renderLine(IconA) \o <<"|", "skipImplementation", ":", "true">>,
                        renderLine(Button1)>>, TRUE),
     <<"Here", " ", "you", " ", "go", ":", "\n", JsonAtoms>>}

\* reply texts of the completion service in step 5
GenerationReplies ==
    {<<Marker("SKIP"), "\n", "false", "\n", "\n", Marker("COMPONENT"), "\n", "code", "\n",
       Marker("CSS"), "\n", "css", "\n", Marker("EXAMPLE"), "\n", "usage">>,
     <<Marker("SKIP"), "\n", "false", "\n", Marker("COMPONENT"), "\n", "code">>,
     <<Marker("SKIP"), "\n", "true", "\n">>,
     <<FENCE, "json", "\n", JsonGenerated, "\n", FENCE>>,
     <<FENCE, "json", "\n", JsonNoBody, "\n", FENCE>>,
     <<"Sorry", " ", "no">>}

-----------------------------------------------------------------------------
(* The run: main() of the CLI and FigmaToAtomic.analyze() *)

\* one line of the record of the run: a fetch from the design service, a call
\* of the completion service, a file written, or the value a stage returned.
\* `subject` is the section or atom the stage was called with.
Event(stage, op, subject, what) ==
    [stage |-> stage, op |-> op, subject |-> subject, what |-> what]

\* getFigmaData(fileKey, node)
fetch(stage, subject, node) == <<Event(stage, "fetch", subject, node)>>

\* one fetch() of the completion service with the prompt `prompt`
completion(stage, subject, prompt) == <<Event(stage, "completion", subject, prompt)>>

\* writeFileSync of the file `file`
write(stage, subject, file) == <<Event(stage, "write", subject, file)>>

returns(stage, subject, value) == <<Event(stage, "return", subject, value)>>

\* what step 2 and step 6 are called with
PageSubject == [id |-> parseUrl(figmaUrl).nodeId, name |-> "", type |-> "page"]
ProjectSubject == [id |-> "", name |-> "test-project", type |-> "project"]

PipeInit ==
    /\ pc = "main"
    /\ figmaToken \in FigmaTokens
    /\ claudeApiKey \in ClaudeApiKeys
    /\ figmaUrl \in FigmaUrls
    /\ validShadcnComponents = {}
    /\ pageData = <<>>
    /\ sections = <<>>
    /\ discoveredAtoms = <<>>
    /\ componentGroups = <<>>
    /\ i = 0
    /\ tokenVariantData = <<>>
    /\ processedComponents = 0
    /\ figmaRequests = 0
    /\ claudeRequests = 0
    /\ files = {}
    /\ log = <<>>
    /\ exitCode = -1
    /\ abortCause = "none"

FnIdle == fnPc = "idle" /\ fnIn = <<>> /\ fnOut = <<>>

Init == PipeInit /\ FnIdle

\* analyze() rejects and main()'s catch calls process.exit(1)
Abort(cause) ==
    /\ pc' = "aborted"
    /\ exitCode' = 1
    /\ abortCause' = cause

\* main() returns normally
Finish ==
    /\ pc' = "done"
    /\ exitCode' = 0
    /\ UNCHANGED abortCause

Continue(next) ==
    /\ pc' = next
    /\ UNCHANGED <<exitCode, abortCause>>

\* setupProject, then process.exit(1) when it reports no success
SetupProject ==
    /\ pc = "main"
    /\ \E success \in BOOLEAN :
          IF success THEN Continue("construct") ELSE Abort("setup")
    /\ UNCHANGED <<figmaToken, claudeApiKey, figmaUrl, validShadcnComponents, pageData,
                   sections, discoveredAtoms, componentGroups, i, tokenVariantData,
                   processedComponents, figmaRequests, claudeRequests, files, log, fnVars>>

\* new FigmaToAtomic(options): the allow-list is loaded, directories are made
Construct ==
    /\ pc = "construct"
    /\ \E fileReadable \in BOOLEAN :
          validShadcnComponents' = loadShadcnComponents(fileReadable)
    /\ Continue("step1")
    /\ UNCHANGED <<figmaToken, claudeApiKey, figmaUrl, pageData,
                   sections, discoveredAtoms, componentGroups, i, tokenVariantData,
                   processedComponents, figmaRequests, claudeRequests, files, log, fnVars>>

\* analyze() up to its first await: processUrlAndValidateAPIs
ProcessUrlAndValidateAPIs ==
    /\ pc = "step1"
    /\ IF ~validateApiKeys(figmaToken, claudeApiKey) THEN Abort("credentials")
       ELSE IF ~parseUrl(figmaUrl).ok THEN Abort("url")
       ELSE Continue("step2_figma")
    /\ UNCHANGED <<figmaToken, claudeApiKey, figmaUrl, validShadcnComponents, pageData,
                   sections, discoveredAtoms, componentGroups, i, tokenVariantData,
                   processedComponents, figmaRequests, claudeRequests, files, log, fnVars>>

\* outcomes of a request other than a 2xx reply with a usable body
Failures == {"network error", "non-2xx"}

\* identifyFigmaSections: getFigmaData(fileKey, nodeId); a failure is not caught
Step2GetFigmaData ==
    /\ pc = "step2_figma"
    /\ figmaRequests' = figmaRequests + 1
    /\ log' = log \o fetch(2, PageSubject, PageSubject.id)
    /\ \/ /\ \E failure \in Failures \cup {"node not found"} : Abort("figma")
          /\ UNCHANGED pageData
       \/ /\ \E page \in Pages : pageData' = <<page>>
          /\ Continue("step2_claude")
    /\ UNCHANGED <<figmaToken, claudeApiKey, figmaUrl, validShadcnComponents,
                   sections, discoveredAtoms, componentGroups, i, tokenVariantData,
                   processedComponents, claudeRequests, files, fnVars>>

\* identifyFigmaSections: identifySections(pageData), then analyze() goes on to
\* processAtomicComponents(sections[0]) when there is a section
Step2IdentifySections ==
    /\ pc = "step2_claude"
    /\ LET calls == completion(2, PageSubject, "step-02-section-identification")
       IN  \/ \* loadPrompt throws before the request
              /\ Abort("prompt")
              /\ UNCHANGED <<claudeRequests, sections, log>>
           \/ /\ claudeRequests' = claudeRequests + Len(calls)
              /\ log' = log \o calls
              /\ \E failure \in Failures : Abort("claude")
              /\ UNCHANGED sections
           \/ /\ claudeRequests' = claudeRequests + Len(calls)
              /\ log' = log \o calls
              /\ \E content \in SectionReplies :
                    /\ sections' = identifySections(pageData[1], content)
                    /\ IF Len(sections') > 0 THEN Continue("step3_figma") ELSE Finish
    /\ UNCHANGED <<figmaToken, claudeApiKey, figmaUrl, validShadcnComponents, pageData,
                   discoveredAtoms, componentGroups, i, tokenVariantData,
                   processedComponents, figmaRequests, files, fnVars>>

\* discoverAtoms returned `atoms`: processAtomicComponents groups them and
\* enters the loop of generateComponents
Discovered(atoms) ==
    /\ discoveredAtoms' = atoms
    /\ componentGroups' = groupAtomsByType(atoms)
    /\ i' = 1
    /\ Continue("loop")

\* the catch of discoverAtoms: the empty list is returned
discoverAtomsCatch_rethrow ==
    /\ Abort("figma")
    /\ UNCHANGED <<discoveredAtoms, componentGroups, i>>

discoverAtomsCatch == Discovered(<<>>)

\* discoverAtoms: getFigmaData(fileKey, section.id); a failure is caught
Step3GetFigmaData ==
    /\ pc = "step3_figma"
    /\ figmaRequests' = figmaRequests + 1
    /\ log' = log \o fetch(3, sections[1], sections[1].id)
    /\ \/ /\ \E failure \in Failures \cup {"node not found"} : discoverAtomsCatch
       \/ /\ Continue("step3_claude")
          /\ UNCHANGED <<discoveredAtoms, componentGroups, i>>
    /\ UNCHANGED <<figmaToken, claudeApiKey, figmaUrl, validShadcnComponents, pageData,
                   sections, tokenVariantData, processedComponents, claudeRequests,
                   files, fnVars>>

\* discoverAtoms: identifyAtoms(sectionData)
Step3IdentifyAtoms ==
    /\ pc = "step3_claude"
    /\ LET calls == completion(3, sections[1], "step-03-atom-discovery")
       IN  \/ \* loadPrompt throws: caught by discoverAtoms
              /\ discoverAtomsCatch
              /\ UNCHANGED <<claudeRequests, files, log>>
           \/ \* the request fails: caught by identifyAtoms
              /\ claudeRequests' = claudeRequests + Len(calls)
              /\ log' = log \o calls
              /\ \E failure \in Failures : Discovered(<<>>)
              /\ UNCHANGED files
           \/ /\ claudeRequests' = claudeRequests + Len(calls)
              /\ \E content \in AtomReplies, saved \in BOOLEAN :
                    LET atoms == decodeAtoms(content)
                        written == atoms # <<>> /\ saved
                    IN  /\ Discovered(atoms)
                        /\ files' = IF written
                                    THEN files \cup {<<"section-analysis.md", sections[1].name>>}
                                    ELSE files
                        /\ log' = log \o calls
                                      \o (IF written
                                          THEN write(3, sections[1], "section-analysis.md")
                                          ELSE <<>>)
    /\ UNCHANGED <<figmaToken, claudeApiKey, figmaUrl, validShadcnComponents, pageData,
                   sections, tokenVariantData, processedComponents, figmaRequests, fnVars>>

\* `const componentGroup = componentGroups[i]`
componentGroup_reversed == componentGroups[Len(componentGroups) + 1 - i]

componentGroup == componentGroups[i]

\* the representative of the group the loop is at
representativeAtom_lastInstance ==
    componentGroup.instances[Len(componentGroup.instances)]

representativeAtom == componentGroup.representative

\* the loop body is over for group i: tokenVariantData was null, or
\* generateComponentFiles has returned and the component was pushed
NextGroup_sameGroupAgain(pushed) ==
    /\ i' = IF pushed THEN i + 1 ELSE i
    /\ processedComponents' = processedComponents + (IF pushed THEN 1 ELSE 0)
    /\ tokenVariantData' = <<>>
    /\ Continue("loop")

NextGroup_notCounted(pushed) ==
    /\ i' = i + 1
    /\ processedComponents' = processedComponents
    /\ tokenVariantData' = <<>>
    /\ Continue("loop")

NextGroup(pushed) ==
    /\ i' = i + 1
    /\ processedComponents' = processedComponents + (IF pushed THEN 1 ELSE 0)
    /\ tokenVariantData' = <<>>
    /\ Continue("loop")

\* the catch of extractAtomTokensAndVariants: null is returned and the loop
\* goes on with the next group
extractAtomTokensAndVariantsCatch_rethrow ==
    /\ Abort("figma")
    /\ UNCHANGED <<i, processedComponents, tokenVariantData>>

extractAtomTokensAndVariantsCatch == NextGroup(FALSE)

\* generateComponents: the loop test and extractAtomTokensAndVariants up to its
\* first await; after the loop, processAtomicComponents decides on the showcase
GenerateComponentsLoop ==
    /\ pc = "loop"
    /\ IF i > Len(componentGroups)
       THEN /\ IF processedComponents > 0 THEN Continue("step6") ELSE Finish
            /\ UNCHANGED <<i, processedComponents, tokenVariantData, log>>
       ELSE IF Has(representativeAtom, "skipImplementation")
       THEN /\ NextGroup(FALSE)
            /\ log' = log \o returns(4, representativeAtom, "null")
       ELSE /\ Continue("step4_figma")
            /\ UNCHANGED <<i, processedComponents, tokenVariantData, log>>
    /\ UNCHANGED <<figmaToken, claudeApiKey, figmaUrl, validShadcnComponents, pageData,
                   sections, discoveredAtoms, componentGroups,
                   figmaRequests, claudeRequests, files, fnVars>>

\* extractAtomTokensAndVariants: getFigmaData(fileKey, atom.id)
Step4GetFigmaData ==
    /\ pc = "step4_figma"
    /\ figmaRequests' = figmaRequests + 1
    /\ \/ /\ \E failure \in Failures \cup {"node not found"} :
                extractAtomTokensAndVariantsCatch
          /\ log' = log \o fetch(4, representativeAtom, representativeAtom.id)
                        \o returns(4, representativeAtom, "null")
       \/ /\ Continue("step4_tokens")
          /\ log' = log \o fetch(4, representativeAtom, representativeAtom.id)
          /\ UNCHANGED <<i, processedComponents, tokenVariantData>>
    /\ UNCHANGED <<figmaToken, claudeApiKey, figmaUrl, validShadcnComponents, pageData,
                   sections, discoveredAtoms, componentGroups,
                   claudeRequests, files, fnVars>>

\* extractAtomTokens: one completion call; its failures give default tokens
Step4ExtractAtomTokens ==
    /\ pc = "step4_tokens"
    /\ LET calls == completion(4, representativeAtom, "step-04-deep-atom-analysis")
       IN  \/ \* loadPrompt throws outside the try of extractAtomTokens
              /\ extractAtomTokensAndVariantsCatch
              /\ log' = log \o returns(4, representativeAtom, "null")
              /\ UNCHANGED claudeRequests
           \/ /\ claudeRequests' = claudeRequests + Len(calls)
              /\ log' = log \o calls
              /\ Continue("step4_variants")
              /\ UNCHANGED <<i, processedComponents, tokenVariantData>>
    /\ UNCHANGED <<figmaToken, claudeApiKey, figmaUrl, validShadcnComponents, pageData,
                   sections, discoveredAtoms, componentGroups,
                   figmaRequests, files, fnVars>>

analysisData(atom) ==
    [atom |-> [id |-> atom.id, name |-> atom.name, type |-> atom.type,
               skipImplementation |-> FALSE]]

\* analyzeAtomVariants: one completion call; then saveTokenVariantAnalysis, and
\* generateComponents calls generateComponentFiles with the data
Step4AnalyzeAtomVariants ==
    /\ pc = "step4_variants"
    /\ LET calls == completion(4, representativeAtom, "step-04-deep-atom-analysis")
       IN  \/ \* loadPrompt throws outside the try of analyzeAtomVariants
              /\ extractAtomTokensAndVariantsCatch
              /\ log' = log \o returns(4, representativeAtom, "null")
              /\ UNCHANGED <<claudeRequests, files>>
           \/ \* writing analysis.json throws
              /\ claudeRequests' = claudeRequests + Len(calls)
              /\ extractAtomTokensAndVariantsCatch
              /\ log' = log \o calls \o returns(4, representativeAtom, "null")
              /\ UNCHANGED files
           \/ /\ claudeRequests' = claudeRequests + Len(calls)
              /\ files' = files \cup {<<"analysis.json", representativeAtom.name>>}
              /\ log' = log \o calls \o write(4, representativeAtom, "analysis.json")
                            \o returns(4, representativeAtom, "data")
              /\ tokenVariantData' = <<analysisData(representativeAtom)>>
              /\ Continue("step5")
              /\ UNCHANGED <<i, processedComponents>>
    /\ UNCHANGED <<figmaToken, claudeApiKey, figmaUrl, validShadcnComponents, pageData,
                   sections, discoveredAtoms, componentGroups, figmaRequests, fnVars>>

\* the result generateComponentWithClaude returns from its catch
SkippedResult ==
    [skipImplementation |-> TRUE, componentCode |-> Undefined,
     updatedCSS |-> Undefined, usageExample |-> Undefined, notes |-> Undefined]

\* the files generateAtomicComponent writes for a generation result; each flag
\* says whether that write succeeds.  A throw of the first component write or
\* of a summary write ends the function in its catch.
generatedFiles_summaryAlways(name, result, saved, copied, cssWritten, summaryWritten) ==
    IF result.skipImplementation
    THEN (IF summaryWritten THEN {<<"summary.json", name>>} ELSE {})
    ELSE (IF result.componentCode = Undefined \/ ~saved THEN {}
          ELSE {<<"outputs.tsx", name>>}
               \cup (IF copied THEN {<<"test-project.tsx", name>>} ELSE {})
               \cup (IF result.updatedCSS # Undefined /\ cssWritten
                     THEN {<<"index.css", "">>} ELSE {}))
         \cup (IF summaryWritten THEN {<<"summary.json", name>>} ELSE {})

generatedFiles_componentOfSkipped(name, result, saved, copied, cssWritten, summaryWritten) ==
    IF result.skipImplementation
    THEN (IF saved THEN {<<"outputs.tsx", name>>} ELSE {})
         \cup (IF summaryWritten THEN {<<"summary.json", name>>} ELSE {})
    ELSE IF result.componentCode = Undefined \/ ~saved THEN {}
    ELSE {<<"outputs.tsx", name>>}
         \cup (IF copied THEN {<<"test-project.tsx", name>>} ELSE {})
         \cup (IF result.updatedCSS # Undefined /\ cssWritten THEN {<<"index.css", "">>} ELSE {})
         \cup (IF summaryWritten THEN {<<"summary.json", name>>} ELSE {})

generatedFiles(name, result, saved, copied, cssWritten, summaryWritten) ==
    IF result.skipImplementation
    THEN (IF summaryWritten THEN {<<"summary.json", name>>} ELSE {})
    ELSE IF result.componentCode = Undefined \/ ~saved THEN {}
    ELSE {<<"outputs.tsx", name>>}
         \cup (IF copied THEN {<<"test-project.tsx", name>>} ELSE {})
         \cup (IF result.updatedCSS # Undefined /\ cssWritten THEN {<<"index.css", "">>} ELSE {})
         \cup (IF summaryWritten THEN {<<"summary.json", name>>} ELSE {})

\* the order in which generateAtomicComponent writes its files
WriteOrder == <<"outputs.tsx", "test-project.tsx", "index.css", "summary.json">>

\* the write events of the files `fs`, in the order of the code
writesInOrder(stage, subject, fs) ==
    LET kinds == SelectSeq(WriteOrder, LAMBDA kind : \E f \in fs : f[1] = kind)
    IN  [k \in 1..Len(kinds) |-> Event(stage, "write", subject, kinds[k])]

\* generateAtomicComponent(tokenVariantData) up to generateComponentWithClaude's
\* completion call
GenerateAtomicComponent ==
    /\ pc = "step5"
    /\ IF tokenVariantData = <<>>
       THEN \* `if (!tokenVariantData) return`
            /\ NextGroup(TRUE)
            /\ UNCHANGED <<files, log>>
       ELSE LET atom == tokenVariantData[1].atom
            IN  IF atom.skipImplementation
                THEN \E summaryWritten \in BOOLEAN :
                        LET fs == generatedFiles(atom.name, SkippedResult, FALSE, FALSE,
                                                 FALSE, summaryWritten)
                        IN  /\ files' = files \cup fs
                            /\ log' = log \o writesInOrder(5, atom, fs)
                                          \o returns(5, atom, "skipped")
                            /\ NextGroup(TRUE)
                ELSE \/ \* loadPrompt throws in generateComponentWithClaude: caught
                        \* by generateAtomicComponent
                        /\ NextGroup(TRUE)
                        /\ log' = log \o returns(5, atom, "failed")
                        /\ UNCHANGED files
                     \/ /\ Continue("step5_claude")
                        /\ UNCHANGED <<i, processedComponents, tokenVariantData, files, log>>
    /\ UNCHANGED <<figmaToken, claudeApiKey, figmaUrl, validShadcnComponents, pageData,
                   sections, discoveredAtoms, componentGroups, figmaRequests,
                   claudeRequests, fnVars>>

\* what generateComponentWithClaude returns: the result of its catch when
\* callClaudeAPI throws or parseClaudeResponse gives null, else the decoded
\* reply
GenerationResults ==
    {SkippedResult : failure \in Failures}
    \cup {IF parseClaudeResponse(content) # <<>> THEN parseClaudeResponse(content)[1]
          ELSE SkippedResult : content \in GenerationReplies}

\* generateComponentWithClaude: callClaudeAPI, parseClaudeResponse, then the
\* writes of generateAtomicComponent
Step5GenerateComponent ==
    /\ pc = "step5_claude"
    /\ LET atom == tokenVariantData[1].atom
           calls == completion(5, atom, "step-05-component-generation")
       IN  /\ claudeRequests' = claudeRequests + Len(calls)
           /\ \E generationResult \in GenerationResults :
                 \E saved \in BOOLEAN, copied \in BOOLEAN, cssWritten \in BOOLEAN,
                    summaryWritten \in BOOLEAN :
                    LET fs == generatedFiles(atom.name, generationResult, saved, copied,
                                             cssWritten, summaryWritten)
                    IN  /\ files' = files \cup fs
                        /\ log' = log \o calls \o writesInOrder(5, atom, fs)
                                      \o returns(5, atom,
                                                 IF generationResult.skipImplementation
                                                 THEN "skipped" ELSE "not skipped")
    /\ NextGroup(TRUE)
    /\ UNCHANGED <<figmaToken, claudeApiKey, figmaUrl, validShadcnComponents, pageData,
                   sections, discoveredAtoms, componentGroups, figmaRequests, fnVars>>

\* generateComponentShowcase up to its completion call
Step6DiscoverComponents ==
    /\ pc = "step6"
    /\ \E found \in BOOLEAN, promptLoaded \in BOOLEAN :
          IF found /\ promptLoaded THEN Continue("step6_claude") ELSE Finish
    /\ UNCHANGED <<figmaToken, claudeApiKey, figmaUrl, validShadcnComponents, pageData,
                   sections, discoveredAtoms, componentGroups, i, tokenVariantData,
                   processedComponents, figmaRequests, claudeRequests, files, log, fnVars>>

\* generateShowcaseWithClaude: the completion call and the write of App.tsx
Step6GenerateShowcase ==
    /\ pc = "step6_claude"
    /\ LET calls == completion(6, ProjectSubject, "step-06-component-showcase")
       IN  /\ claudeRequests' = claudeRequests + Len(calls)
           /\ \E written \in BOOLEAN :
                 /\ files' = IF written THEN files \cup {<<"App.tsx", "">>} ELSE files
                 /\ log' = log \o calls
                               \o (IF written THEN write(6, ProjectSubject, "App.tsx")
                                   ELSE <<>>)
    /\ Finish
    /\ UNCHANGED <<figmaToken, claudeApiKey, figmaUrl, validShadcnComponents, pageData,
                   sections, discoveredAtoms, componentGroups, i, tokenVariantData,
                   processedComponents, figmaRequests, fnVars>>

Next ==
    \/ SetupProject
    \/ Construct
    \/ ProcessUrlAndValidateAPIs
    \/ Step2GetFigmaData
    \/ Step2IdentifySections
    \/ Step3GetFigmaData
    \/ Step3IdentifyAtoms
    \/ GenerateComponentsLoop
    \/ Step4GetFigmaData
    \/ Step4ExtractAtomTokens
    \/ Step4AnalyzeAtomVariants
    \/ GenerateAtomicComponent
    \/ Step5GenerateComponent
    \/ Step6DiscoverComponents
    \/ Step6GenerateShowcase

Spec == Init /\ [][Next]_vars

\* every request settles and every step of main() is taken in the end
FairSpec == Spec /\ WF_vars(Next)

TypeOK ==
    /\ pc \in {"main", "construct", "step1", "step2_figma", "step2_claude", "step3_figma",
               "step3_claude", "loop", "step4_figma", "step4_tokens", "step4_variants",
               "step5", "step5_claude", "step6", "step6_claude", "done", "aborted"}
    /\ exitCode \in {-1, 0, 1}
    /\ (pc = "done") = (exitCode = 0)
    /\ (pc = "aborted") = (exitCode = 1)

-----------------------------------------------------------------------------
(* The grouping engine on its own: groupAtomsByType applied to atom lists *)

PipeIdle ==
    /\ PipeInit
    /\ figmaToken = "figd_token"
    /\ claudeApiKey = "sk-ant-key"
    /\ figmaUrl = [parses |-> TRUE, nodeIdParam |-> <<<<"1", "-", "2">>>>,
                   pathname |-> DesignPath]

AtomPool ==
    {[id |-> id, name |-> name, type |-> type] :
        id \in {"1:10", "1:11"}, name \in {"Button 1", "Button 2"},
        type \in {"button", "icon"}}

SeqsUpTo(S, n) == UNION {[1..k -> S] : k \in 0..n}

GroupInit ==
    /\ PipeIdle
    /\ fnPc = "atoms"
    /\ fnIn \in SeqsUpTo(AtomPool, MaxAtoms)
    /\ fnOut = <<>>

CallGroupAtomsByType ==
    /\ fnPc = "atoms"
    /\ fnOut' = groupAtomsByType(fnIn)
    /\ fnPc' = "grouped"
    /\ UNCHANGED <<fnIn, pipeVars>>

GroupNext == CallGroupAtomsByType

SpecGroup == GroupInit /\ [][GroupNext]_vars

-----------------------------------------------------------------------------
(* The decoders on their own: a reply text decoded in list mode              *)
(* (identifyAtoms) and in generation mode (parseClaudeResponse)              *)

IdValues == {<<"10", ":", "20">>, <<"7">>}
NameValues == {<<"x">>, <<"Button", " ", "1">>, <<"a", "|", "b">>, <<" ", "x">>}
TypeValues == {<<"button">>, <<"icon">>}

RecordLines ==
    {[kind |-> "record", rec |-> [id |-> id, name |-> name, type |-> type],
      text |-> renderLine([id |-> id, name |-> name, type |-> type])] :
        id \in IdValues, name \in NameValues, type \in TypeValues}

NoRecord == [id |-> <<>>, name |-> <<>>, type |-> <<>>]

MalformedLines ==
    {[kind |-> "notype", rec |-> NoRecord,
      text |-> <<"id", ":", "7", "|", "name", ":", "x">>],
     [kind |-> "emptytype", rec |-> NoRecord,
      text |-> <<"id", ":", "7", "|", "name", ":", "x", "|", "type", ":">>],
     [kind |-> "prose", rec |-> NoRecord,
      text |-> <<"no", " ", "components">>]}

LinePool == RecordLines \cup MalformedLines

ListReplies ==
    {[kind |-> "list", lines |-> ls, withSummary |-> ws, secs |-> <<>>, flag |-> "none",
      fenced |-> FALSE, doc |-> "",
      content |-> renderComponents([k \in 1..Len(ls) |-> ls[k].text], ws)] :
        ls \in SeqsUpTo(LinePool, MaxLines), ws \in BOOLEAN}

SectionNames == {"COMPONENT", "CSS", "EXAMPLE", "NOTES"}
Bodies == {<<"code">>, <<"a", "-", "b">>, <<"l1", "\n", "l2">>}

SectionLists ==
    {ss \in SeqsUpTo([name : SectionNames, body : Bodies], MaxSections) :
        \A a, b \in 1..Len(ss) : a # b => ss[a].name # ss[b].name}

RECURSIVE renderSections(_)
renderSections(ss) ==
    IF ss = <<>> THEN <<>>
    ELSE <<Marker(Head(ss).name), "\n">> \o Head(ss).body \o <<"\n", "\n">>
         \o renderSections(Tail(ss))

renderGeneration(flag, ss) ==
    (IF flag = "none" THEN <<>> ELSE <<Marker("SKIP"), "\n", flag, "\n", "\n">>)
        \o renderSections(ss)

GenerationTexts ==
    {[kind |-> "generation", lines |-> <<>>, withSummary |-> FALSE, secs |-> ss,
      flag |-> flag, fenced |-> FALSE, doc |-> "",
      content |-> renderGeneration(flag, ss)] :
        ss \in SectionLists, flag \in {"none", "false", "true"}}

JsonBadObject == "{not json}"

renderJson(prefix, fenced, doc, suffix) ==
    prefix \o (IF fenced THEN <<FENCE, "json", "\n", doc, "\n", FENCE>> ELSE <<doc>>)
           \o suffix

JsonReplies ==
    {[kind |-> "json", lines |-> <<>>, withSummary |-> FALSE, secs |-> <<>>,
      flag |-> "none", fenced |-> fenced, doc |-> doc,
      content |-> renderJson(prefix, fenced, doc, suffix)] :
        prefix \in {<<>>, <<"Here", " ", "you", " ", "go", ":", "\n">>},
        suffix \in {<<>>, <<"\n", "Done">>},
        fenced \in BOOLEAN,
        doc \in JsonDocs \cup {JsonBadObject}}

DecoderInit ==
    /\ PipeIdle
    /\ fnPc = "reply"
    /\ fnIn \in ListReplies \cup GenerationTexts \cup JsonReplies
    /\ fnOut = <<>>

\* the decoding part of identifyAtoms
CallDecodeAtoms ==
    /\ fnPc = "reply"
    /\ fnOut' = decodeAtoms(fnIn.content)
    /\ fnPc' = "list"
    /\ UNCHANGED <<fnIn, pipeVars>>

CallParseClaudeResponse ==
    /\ fnPc = "reply"
    /\ fnOut' = parseClaudeResponse(fnIn.content)
    /\ fnPc' = "generation"
    /\ UNCHANGED <<fnIn, pipeVars>>

DecoderNext == CallDecodeAtoms \/ CallParseClaudeResponse

SpecDecoder == DecoderInit /\ [][DecoderNext]_vars

-----------------------------------------------------------------------------
(* generateAtomicComponent on its own, called with analysis data read from  *)
(* analysis.json as test-skip.ts does; the atom may carry skipImplementation *)

AnalysisAtoms ==
    {[id |-> id, name |-> name, type |-> type, skipImplementation |-> skip] :
        id \in {"1:10"}, name \in {"Button 1", "Icon A", "Title"},
        type \in {"button", "icon", "text"}, skip \in BOOLEAN}

GenerateInit ==
    /\ pc = "step5"
    /\ figmaToken = "figd_token"
    /\ claudeApiKey = "sk-ant-key"
    /\ figmaUrl \in {u \in FigmaUrls : parseUrl(u).ok}
    /\ validShadcnComponents = ShadcnComponents
    /\ pageData = <<>>
    /\ sections = <<>>
    /\ discoveredAtoms = <<>>
    /\ componentGroups = <<>>
    /\ i = 1
    /\ tokenVariantData \in {<<>>} \cup {<<[atom |-> atom]>> : atom \in AnalysisAtoms}
    /\ processedComponents = 0
    /\ figmaRequests = 0
    /\ claudeRequests = 0
    /\ files = {}
    /\ log = <<>>
    /\ exitCode = -1
    /\ abortCause = "none"
    /\ FnIdle

GenerateNext == GenerateAtomicComponent \/ Step5GenerateComponent

SpecGenerate == GenerateInit /\ [][GenerateNext]_vars

-----------------------------------------------------------------------------
(* convertToPascalCase on its own, applied to display names *)

Chars == {"a", "B", "1", " ", "-", "_", "."}

NameInit ==
    /\ PipeIdle
    /\ fnPc = "name"
    /\ fnIn \in SeqsUpTo(Chars, MaxNameLen)
    /\ fnOut = <<>>

CallConvertToPascalCase ==
    /\ fnPc = "name"
    /\ fnOut' = convertToPascalCase(fnIn)
    /\ fnPc' = "derived"
    /\ UNCHANGED <<fnIn, pipeVars>>

NameNext == CallConvertToPascalCase

SpecName == NameInit /\ [][NameNext]_vars

-----------------------------------------------------------------------------
(* loadPrompt on its own, applied to template files and variables *)

TemplateLines ==
    {<<"Documentation">>, <<AIPrompt>>, <<"Analyze", " ", Placeholder("A")>>,
     <<Placeholder("B")>>}

PromptFiles ==
    {[readable |-> TRUE, lines |-> ls, content |-> trimEnd(joinLines(ls))] :
        ls \in SeqsUpTo(TemplateLines, MaxTemplateLines)}
    \cup {[readable |-> FALSE, lines |-> <<>>, content |-> <<>>]}

PromptValues == {<<"button">>, <<"US", "$$">>, <<"$&">>, <<Placeholder("B")>>}

PromptVariables ==
    {vs \in SeqsUpTo([key : {"A", "B"}, value : PromptValues], 2) :
        \A a, b \in 1..Len(vs) : a # b => vs[a].key # vs[b].key}

PromptInit ==
    /\ PipeIdle
    /\ fnPc = "template"
    /\ fnIn \in [file : PromptFiles, variables : PromptVariables]
    /\ fnOut = <<>>

CallLoadPrompt ==
    /\ fnPc = "template"
    /\ fnOut' = loadPrompt(fnIn.file, fnIn.variables)
    /\ fnPc' = "prompt"
    /\ UNCHANGED <<fnIn, pipeVars>>

PromptNext == CallLoadPrompt

SpecPrompt == PromptInit /\ [][PromptNext]_vars

-----------------------------------------------------------------------------
(* The older agent (src/figma-agent.ts): `new IndependentFigmaAgent().run()`. *)
(* The constructor calls the async loadShadcnComponents without awaiting it,  *)
(* so the loader (fnPc) and run() (pc) advance independently once run() has   *)
(* reached its first await.                                                  *)

AgentInit ==
    /\ pc = "agent_new"
    /\ figmaToken \in FigmaTokens
    /\ claudeApiKey \in ClaudeApiKeys
    /\ figmaUrl \in FigmaUrls
    /\ validShadcnComponents = {}
    /\ pageData = <<>>
    /\ sections = <<>>
    /\ discoveredAtoms = <<>>
    /\ componentGroups = <<>>
    /\ i = 0
    /\ tokenVariantData = <<>>
    /\ processedComponents = 0
    /\ figmaRequests = 0
    /\ claudeRequests = 0
    /\ files = {}
    /\ log = <<>>
    /\ exitCode = -1
    /\ abortCause = "none"
    /\ fnPc = "idle"
    /\ fnIn \in [showHelp : BOOLEAN, fileReadable : BOOLEAN]
    /\ fnOut = <<>>

AgentUnchanged ==
    UNCHANGED <<figmaToken, claudeApiKey, figmaUrl, pageData, sections,
                discoveredAtoms, componentGroups, i, tokenVariantData,
                processedComponents, figmaRequests, claudeRequests, files, log,
                exitCode, abortCause, fnIn>>

\* the constructor: loadShadcnComponents runs up to `await import('fs')` and
\* returns a pending promise that nothing awaits
AgentConstruct ==
    /\ pc = "agent_new"
    /\ validShadcnComponents' = {}
    /\ fnPc' = "import_fs"
    /\ pc' = "agent_run"
    /\ UNCHANGED fnOut
    /\ AgentUnchanged

\* run() up to its first await: the help text, the credentials, parseUrl and
\* the request for the page
AgentRun ==
    /\ pc = "agent_run"
    /\ pc' = IF \/ fnIn.showHelp
                \/ ~validateApiKeys(figmaToken, claudeApiKey)
                \/ ~parseUrl(figmaUrl).ok
             THEN "done" ELSE "agent_page"
    /\ UNCHANGED <<validShadcnComponents, fnPc, fnOut>>
    /\ AgentUnchanged

\* a getFigmaData call settles: the page, the first section, the first atom
AgentGetFigmaData ==
    /\ pc \in {"agent_page", "agent_section", "agent_atom"}
    /\ \E ok \in BOOLEAN :
          pc' = IF ~ok THEN "done"
                ELSE CASE pc = "agent_page" -> "agent_sections"
                       [] pc = "agent_section" -> "agent_atoms"
                       [] OTHER -> "agent_variants"
    /\ UNCHANGED <<validShadcnComponents, fnPc, fnOut>>
    /\ AgentUnchanged

\* analyzeWithClaude settles: it throws, or returns no section, or some
AgentAnalyzeWithClaude ==
    /\ pc = "agent_sections"
    /\ \E outcome \in {"error", "none", "some"} :
          pc' = IF outcome = "some" THEN "agent_section" ELSE "done"
    /\ UNCHANGED <<validShadcnComponents, fnPc, fnOut>>
    /\ AgentUnchanged

\* identifyAtoms settles: it never throws and returns no atom, or some
AgentIdentifyAtoms ==
    /\ pc = "agent_atoms"
    /\ \E found \in BOOLEAN : pc' = IF found THEN "agent_atom" ELSE "done"
    /\ UNCHANGED <<validShadcnComponents, fnPc, fnOut>>
    /\ AgentUnchanged

\* analyzeAtomVariants settles and analyzeAtomForImplementation looks the
\* suggested component up in the allow-list
AgentAnalyzeAtomVariants ==
    /\ pc = "agent_variants"
    /\ \E shadcnComponent \in {<<>>, <<"button">>, <<"custom">>} :
          IF shadcnComponent = <<>>
          THEN pc' = "agent_save" /\ UNCHANGED fnOut
          ELSE /\ fnOut' = <<[shadcnComponent |-> shadcnComponent[1],
                              has |-> shadcnComponent[1] \in validShadcnComponents,
                              loader |-> fnPc]>>
               /\ pc' = IF shadcnComponent[1] \in validShadcnComponents
                        THEN "agent_install" ELSE "agent_save"
    /\ UNCHANGED <<validShadcnComponents, fnPc>>
    /\ AgentUnchanged

\* installShadcnComponent settles (it catches its own errors)
AgentInstall ==
    /\ pc = "agent_install"
    /\ pc' = "agent_save"
    /\ UNCHANGED <<validShadcnComponents, fnPc, fnOut>>
    /\ AgentUnchanged

\* saveAtomImplementation settles
AgentSave ==
    /\ pc = "agent_save"
    /\ pc' = "done"
    /\ UNCHANGED <<validShadcnComponents, fnPc, fnOut>>
    /\ AgentUnchanged

\* `await import('fs')` settles; this cannot happen before run() has reached
\* an await or returned
LoaderImportFs ==
    /\ fnPc = "import_fs"
    /\ pc \notin {"agent_new", "agent_run"}
    /\ fnPc' = "import_path"
    /\ UNCHANGED <<pc, validShadcnComponents, fnOut>>
    /\ AgentUnchanged

\* `await import('path')` settles and the names of the file are added
LoaderPopulate ==
    /\ fnPc = "import_path"
    /\ validShadcnComponents' =
          validShadcnComponents \cup loadShadcnComponents(fnIn.fileReadable)
    /\ fnPc' = "loaded"
    /\ UNCHANGED <<pc, fnOut>>
    /\ AgentUnchanged

AgentNext ==
    \/ AgentConstruct
    \/ AgentRun
    \/ AgentGetFigmaData
    \/ AgentAnalyzeWithClaude
    \/ AgentIdentifyAtoms
    \/ AgentAnalyzeAtomVariants
    \/ AgentInstall
    \/ AgentSave
    \/ LoaderImportFs
    \/ LoaderPopulate

SpecAgent == AgentInit /\ [][AgentNext]_vars

-----------------------------------------------------------------------------
(* generateComponentShowcase on its own, called on a project directory as   *)
(* the step-06 integration test does                                        *)

MaxEntries == 2

ShowcaseEntry == [name : {"Badge", "Button"}, isDirectory : BOOLEAN,
                  hasComponentFile : BOOLEAN]

ProjectDirs ==
    [atomsDirectoryExists : BOOLEAN,
     entries : {es \in SeqsUpTo(ShowcaseEntry, MaxEntries) :
                   \A a, b \in 1..Len(es) : a # b => es[a].name # es[b].name},
     statFailsAt : 0..MaxEntries,
     appExists : BOOLEAN,
     promptReadable : BOOLEAN]

ShowcaseReplies ==
    {<<Marker("APP_CONTENT"), "\n", "<App/>">>,
     <<Marker("APP_CONTENT"), "\n", FENCE, "tsx", "\n", "<App/>", "\n", FENCE,
       "\n", Marker("NOTES"), "\n", "note">>,
     <<Marker("APP_CONTENT"), "\n", FENCE, "\n", FENCE>>,
     <<Marker("APP_CONTENT"), " ", "<App/>">>,
     <<"Here", " ", "it", " ", "is">>,
     <<>>}

ShowcaseInit ==
    /\ PipeInit
    /\ figmaToken = "figd_token"
    /\ figmaUrl = [parses |-> TRUE, nodeIdParam |-> <<<<"1", "-", "2">>>>,
                   pathname |-> DesignPath]
    /\ fnPc = "showcase"
    /\ fnIn \in ProjectDirs
    /\ fnOut = <<>>

ShowcaseUnchanged ==
    UNCHANGED <<pc, figmaToken, claudeApiKey, figmaUrl, validShadcnComponents,
                pageData, sections, discoveredAtoms, componentGroups, i,
                tokenVariantData, processedComponents, figmaRequests, log,
                exitCode, abortCause, fnIn>>

\* the catch of generateComponentShowcase: the error is logged
showcaseCatch_rethrow == [threw |-> TRUE, components |-> <<>>]

showcaseCatch == [threw |-> FALSE, components |-> <<>>]

\* generateComponentShowcase up to `await callClaudeAPI`
ShowcaseDiscover ==
    /\ fnPc = "showcase"
    /\ LET discoveredComponents == discoverAtomicComponents(fnIn)
       IN  IF Len(discoveredComponents) = 0 \/ ~fnIn.appExists
           THEN /\ fnOut' = <<[threw |-> FALSE, components |-> discoveredComponents]>>
                /\ fnPc' = "returned"
           ELSE IF ~fnIn.promptReadable
           THEN /\ fnOut' = <<showcaseCatch>>
                /\ fnPc' = "returned"
           ELSE /\ fnOut' = <<[threw |-> FALSE, components |-> discoveredComponents]>>
                /\ fnPc' = "showcase_claude"
    /\ UNCHANGED <<claudeRequests, files>>
    /\ ShowcaseUnchanged

\* callClaudeAPI settles: generateShowcaseWithClaude returns the content or
\* null, and generateComponentShowcase writes App.tsx when there is content
ShowcaseGenerate ==
    /\ fnPc = "showcase_claude"
    /\ claudeRequests' = claudeRequests + 1
    /\ \/ /\ \E failure \in Failures : UNCHANGED <<files, fnOut>>
       \/ \E claudeResponse \in ShowcaseReplies, writeFails \in BOOLEAN :
             LET showcaseContent == extractShowcaseContent(claudeResponse)
             IN  IF showcaseContent = <<>> \/ showcaseContent[1] = <<>>
                 THEN UNCHANGED <<files, fnOut>>
                 ELSE IF writeFails
                 THEN /\ fnOut' = <<showcaseCatch>>
                      /\ UNCHANGED files
                 ELSE /\ files' = files \cup {<<"App.tsx", Join(showcaseContent[1])>>}
                      /\ UNCHANGED fnOut
    /\ fnPc' = "returned"
    /\ ShowcaseUnchanged

ShowcaseNext == ShowcaseDiscover \/ ShowcaseGenerate

SpecShowcase == ShowcaseInit /\ [][ShowcaseNext]_vars

-----------------------------------------------------------------------------
(* groupAtomsByType called several times on one FigmaToAtomic object: fnIn  *)
(* holds two atom lists and fnOut the calls made so far with their results  *)

MaxCalls == 3

RegroupPool ==
    {[id |-> "1:10", name |-> "Button 1", type |-> "button"],
     [id |-> "1:11", name |-> "Button 2", type |-> "button"],
     [id |-> "1:12", name |-> "Icon A", type |-> "icon"]}

RegroupInit ==
    /\ PipeIdle
    /\ fnPc = "calls"
    /\ fnIn \in SeqsUpTo(RegroupPool, MaxAtoms) \X SeqsUpTo(RegroupPool, MaxAtoms)
    /\ fnOut = <<>>

CallGroupAtomsByTypeAgain ==
    /\ fnPc = "calls"
    /\ Len(fnOut) < MaxCalls
    /\ \E k \in 1..2 :
          fnOut' = Append(fnOut, [atoms |-> fnIn[k], groups |-> groupAtomsByType(fnIn[k])])
    /\ UNCHANGED <<fnPc, fnIn, pipeVars>>

RegroupNext == CallGroupAtomsByTypeAgain

SpecRegroup == RegroupInit /\ [][RegroupNext]_vars

-----------------------------------------------------------------------------
(* The directories of two discovered atoms: the atoms are grouped, and for  *)
(* the representative of each group step 4 saves analysis.json and step 5   *)
(* saves the component file and summary.json                                *)

MaxPathNameLen == 3

PathChars == {"a", "B", " ", "-", "_"}

PathAtoms ==
    {<<[id |-> "1:10", name |-> n1, type |-> "button"],
       [id |-> "1:11", name |-> n2, type |-> t2]>> :
        n1 \in SeqsUpTo(PathChars, MaxPathNameLen),
        n2 \in SeqsUpTo({"a", "B", " ", "-"}, MaxPathNameLen - 1),
        t2 \in {"button", "input"}}

PathsInit ==
    /\ PipeIdle
    /\ fnPc = "atoms"
    /\ fnIn \in PathAtoms
    /\ fnOut = <<>>

\* saveTokenVariantAnalysis: atom.name.replace(/\s+/g, '').replace(/[^a-zA-Z0-9]/g, '')
analysisComponentName(name) ==
    SelectSeq(SelectSeq(name, LAMBDA c : ~IsSpace(c)), IsAlphaNumeric)

\* the directories under outputs/components/atoms written for each group
SaveGroupFiles ==
    /\ fnPc = "atoms"
    /\ LET groups == groupAtomsByType(fnIn)
       IN  fnOut' = [g \in 1..Len(groups) |->
                        [type |-> groups[g].type,
                         analysisDir |-> analysisComponentName(groups[g].representative.name),
                         componentDir |-> convertToPascalCase(groups[g].representative.name)]]
    /\ fnPc' = "saved"
    /\ UNCHANGED <<fnIn, pipeVars>>

PathsNext == SaveGroupFiles

SpecPaths == PathsInit /\ [][PathsNext]_vars

-----------------------------------------------------------------------------
(* Claims *)

Min(S) == CHOOSE x \in S : \A y \in S : x <= y

\* the positions of the input atoms of type t
PositionsOf(atoms, t) == {k \in 1..Len(atoms) : atoms[k].type = t}

\* C1: groupAtomsByType returns one group per distinct atom.type, ordered by
\* the first occurrence of the type in the input; a group's representative is
\* the first input atom of its type and later atoms of the type are appended
\* to instances without replacing it.
C1_GroupsInFirstSeenOrder ==
    fnPc = "grouped" =>
        LET types == {fnIn[k].type : k \in 1..Len(fnIn)}
        IN  /\ Len(fnOut) = Cardinality(types)
            /\ {fnOut[g].type : g \in 1..Len(fnOut)} = types
            /\ \A g, h \in 1..Len(fnOut) :
                  g < h => Min(PositionsOf(fnIn, fnOut[g].type))
                               < Min(PositionsOf(fnIn, fnOut[h].type))
            /\ \A g \in 1..Len(fnOut) :
                  /\ fnOut[g].representative = fnIn[Min(PositionsOf(fnIn, fnOut[g].type))]
                  /\ \A k \in PositionsOf(fnIn, fnOut[g].type) :
                        \E m \in 1..Len(fnOut[g].instances) : fnOut[g].instances[m] = fnIn[k]

\* two groups, one of them with a later instance that differs from its representative
C1_Witness ==
    /\ fnPc = "grouped"
    /\ Len(fnOut) = 2
    /\ \E g \in 1..2 :
          /\ Len(fnOut[g].instances) = 2
          /\ fnOut[g].instances[2] # fnOut[g].representative

\* C2: every atom passed to groupAtomsByType has a type of the allow-list
\* loaded at start-up.
C2_OnlyAllowListedAtomsAreGrouped ==
    \A k \in 1..Len(discoveredAtoms) : discoveredAtoms[k].type \in validShadcnComponents

\* analyze() has rejected and main() has called process.exit(1)
AnalyzeRejected == pc = "aborted" /\ abortCause # "setup"

\* C3: the run ends in Aborted only if credentials are missing or the
\* reference string cannot be parsed; no failed fetch, non-2xx response or
\* failed completion call of any stage aborts the run.
C3_AbortOnlyOnFatalPrecondition ==
    AnalyzeRejected => abortCause \in {"credentials", "url"}

\* a value the list format can carry: not empty, no pipe, no newline, no
\* marker, no white space at either end
Clean(value) ==
    /\ value # <<>>
    /\ trim(value) = value
    /\ \A k \in 1..Len(value) : value[k] \notin {"|", "\n"} \cup Markers

CleanRecord(rec) == Clean(rec.id) /\ Clean(rec.name) /\ Clean(rec.type)

CleanLine(line) == line.kind = "record" /\ CleanRecord(line.rec)

\* the record a list line stands for, with its values as strings
Joined(rec) == [id |-> Join(rec.id), name |-> Join(rec.name), type |-> Join(rec.type)]

ListDecoded == fnPc = "list" /\ fnIn.kind = "list" /\ fnIn.withSummary

\* C4: a token is split into key and value at its first colon only: a section
\* of one line `id:<id>|name:<name>|type:<type>` decodes to that one record
\* also when the id contains colons, so `id:10:20|name:x|type:button` gives
\* {id: "10:20", name: "x", type: "button"}.
C4_SplitAtFirstColon ==
    (ListDecoded /\ Len(fnIn.lines) = 1 /\ CleanLine(fnIn.lines[1]))
        => fnOut = <<Joined(fnIn.lines[1].rec)>>

C4_Witness ==
    /\ ListDecoded
    /\ fnIn.lines = <<[kind |-> "record",
                       rec |-> [id |-> <<"10", ":", "20">>, name |-> <<"x">>,
                                type |-> <<"button">>],
                       text |-> <<"id", ":", "10", ":", "20", "|", "name", ":", "x",
                                  "|", "type", ":", "button">>]>>
    /\ fnOut = <<[id |-> "10:20", name |-> "x", type |-> "button"]>>

\* the lines of the input other than line k, in order
Without(ls, k) == [m \in 1..(Len(ls) - 1) |-> IF m < k THEN ls[m] ELSE ls[m + 1]]

\* C5: a line that lacks a type key is dropped and the other lines are still
\* decoded: a section of N lines, one of them without a type key, decodes to
\* exactly the N-1 records of the other lines.
C5_MalformedLineIsSkipped ==
    ListDecoded =>
        \A k \in 1..Len(fnIn.lines) :
            (/\ fnIn.lines[k].kind = "notype"
             /\ \A m \in 1..Len(fnIn.lines) : m # k => CleanLine(fnIn.lines[m]))
            => fnOut = [m \in 1..(Len(fnIn.lines) - 1) |->
                            Joined(Without(fnIn.lines, k)[m].rec)]

\* a well-formed line followed by a line without a type key
C5_Witness ==
    /\ ListDecoded
    /\ Len(fnIn.lines) >= 2
    /\ CleanLine(fnIn.lines[1])
    /\ fnIn.lines[Len(fnIn.lines)].kind = "notype"
    /\ Len(fnOut) = Len(fnIn.lines) - 1

\* C6: within one DiscoverElements output every atom id is unique.
C6_AtomIdsAreUnique ==
    fnPc = "list" =>
        \A a, b \in 1..Len(fnOut) : a # b => fnOut[a].id # fnOut[b].id

\* the text between the first marker of the section and the next marker of
\* any name, or the end of the input
SectionBody(content, sectionName) ==
    trim(substring(content, indexOf(content, Marker(sectionName)) + 1,
                   firstOf(content, Markers, indexOf(content, Marker(sectionName)) + 1)))

FieldOf(result, sectionName) ==
    CASE sectionName = "COMPONENT" -> result.componentCode
      [] sectionName = "CSS" -> result.updatedCSS
      [] sectionName = "EXAMPLE" -> result.usageExample
      [] sectionName = "NOTES" -> result.notes

\* C7: the decoded body of every named section is the text between its
\* marker line and the next marker line of any name, or the end of the input,
\* for every section order and for bodies with hyphens or several lines.
C7_SectionBodyRunsToNextMarker ==
    (/\ fnPc = "generation" /\ fnIn.kind = "generation" /\ fnIn.flag # "true"
     /\ includes(fnIn.content, Marker("SKIP")) \/ includes(fnIn.content, Marker("COMPONENT"))) =>
        \A k \in 1..Len(fnIn.secs) :
            FieldOf(fnOut[1], fnIn.secs[k].name) = SectionBody(fnIn.content, fnIn.secs[k].name)

\* the records of the JSON array JsonAtoms
JsonAtomsValue == <<[id |-> "1:10", name |-> "Button 1", type |-> "button"]>>

AllRecordLines == \A k \in 1..Len(fnIn.lines) : fnIn.lines[k].kind = "record"

\* C9: records with non-empty id, name and type, rendered as list lines
\* inside a components section, decode to the same records in the same order.
C9_RoundTrip ==
    (ListDecoded /\ AllRecordLines) =>
        fnOut = [k \in 1..Len(fnIn.lines) |-> Joined(fnIn.lines[k].rec)]

\* C9 as amended: the round trip holds for records whose values hold no pipe,
\* no newline and no marker and have no white space at either end.
C9_RoundTripOfCleanRecords ==
    (ListDecoded /\ \A k \in 1..Len(fnIn.lines) : CleanLine(fnIn.lines[k])) =>
        fnOut = [k \in 1..Len(fnIn.lines) |-> Joined(fnIn.lines[k].rec)]

\* two different clean records, the first with a colon in its id
C9_Witness ==
    /\ ListDecoded
    /\ Len(fnIn.lines) = 2
    /\ CleanLine(fnIn.lines[1]) /\ CleanLine(fnIn.lines[2])
    /\ fnIn.lines[1] # fnIn.lines[2]
    /\ fnOut = <<Joined(fnIn.lines[1].rec), Joined(fnIn.lines[2].rec)>>
    /\ fnOut[1].id = "10:20"

\* the reference string gives no node id or no file key
NoResolvableReference ==
    \/ ~figmaUrl.parses
    \/ figmaUrl.nodeIdParam \in {<<>>, <<<<>>>>}
    \/ figmaUrl.pathname # DesignPath

\* C10: when the reference string has no resolvable node id or file key, the
\* run aborts before any request to the design service or to the completion
\* service is issued.
C10_NoRequestBeforeUrlAbort ==
    NoResolvableReference =>
        /\ figmaRequests = 0
        /\ claudeRequests = 0
        /\ pc \in {"main", "construct", "step1", "aborted"}

\* credentials present, the reference string has no node id: the run aborted
C10_Witness ==
    /\ NoResolvableReference
    /\ figmaUrl.parses /\ figmaUrl.nodeIdParam = <<>>
    /\ pc = "aborted" /\ abortCause = "url"
    /\ figmaRequests = 0 /\ claudeRequests = 0

-----------------------------------------------------------------------------
(* Claims about the orchestration *)

SameAtom(a, b) == a.id = b.id /\ a.name = b.name /\ a.type = b.type

\* the positions of the log with an event of stage `stage` and kind `op` for
\* the atom `subject`
EventsFor(stage, op, subject) ==
    {k \in 1..Len(log) : /\ log[k].stage = stage
                         /\ log[k].op = op
                         /\ SameAtom(log[k].subject, subject)}

IsRepresentative(subject) ==
    \E g \in 1..Len(componentGroups) :
        SameAtom(subject, componentGroups[g].instances[1])

\* C11: discovery is issued only for the first classified section, and
\* extraction and generation only for the representative (the first instance)
\* of a group: every fetch, completion call, file write and stage result of
\* step 3 is for sections[1], every one of steps 4 and 5 is for a
\* representative.
C11_OnlyFirstSectionAndRepresentatives ==
    \A k \in 1..Len(log) :
        /\ log[k].stage = 3 => log[k].subject = sections[1]
        /\ (log[k].stage = 3 /\ log[k].op = "fetch") => log[k].what = sections[1].id
        /\ log[k].stage \in {4, 5} => IsRepresentative(log[k].subject)
        /\ (log[k].stage = 4 /\ log[k].op = "fetch") =>
              \E g \in 1..Len(componentGroups) :
                  log[k].what = componentGroups[g].instances[1].id

\* a finished run with two sections and a group of two instances whose
\* representative went through generation
C11_Witness ==
    /\ pc = "done"
    /\ Len(sections) = 2
    /\ \E g \in 1..Len(componentGroups) :
          /\ Len(componentGroups[g].instances) = 2
          /\ ~SameAtom(componentGroups[g].instances[1], componentGroups[g].instances[2])
          /\ EventsFor(5, "write", componentGroups[g].instances[1]) # {}

\* the group an event of step 4 or 5 belongs to
GroupIndex(subject) ==
    CHOOSE g \in 1..Len(componentGroups) : componentGroups[g].type = subject.type

\* the place of an event in a sequential run: step 2, step 3, then steps 4 and
\* 5 of group 1, steps 4 and 5 of group 2, ..., then step 6
Order(e) ==
    CASE e.stage \in {2, 3} -> e.stage
      [] e.stage \in {4, 5} -> 10 * GroupIndex(e.subject) + e.stage
      [] e.stage = 6 -> 10 * (Len(componentGroups) + 1)

\* C12: the stages run one after another and the groups in the order of
\* groupAtomsByType: in the record of the run no fetch, completion call, file
\* write or result is followed by one of an earlier place, the places being
\* step 2, step 3, steps 4 and 5 of group 1, of group 2, ..., step 6; so all
\* of group g comes before the first of group g+1.
C12_GroupsOneAfterAnother ==
    \A k \in 1..(Len(log) - 1) : Order(log[k]) <= Order(log[k + 1])

\* a finished run in which two groups each wrote a file in step 5
C12_Witness ==
    /\ pc = "done"
    /\ Len(componentGroups) = 2
    /\ \A g \in 1..2 : EventsFor(5, "write", componentGroups[g].representative) # {}

InLoop == pc \in {"loop", "step4_figma", "step4_tokens", "step4_variants",
                  "step5", "step5_claude"}

\* extractAtomTokensAndVariants has returned for group g
Stage4Returned(g) == EventsFor(4, "return", componentGroups[g].representative) # {}

\* C13: a failure of extraction or generation for a group does not leave the
\* loop as an exception: the run never aborts once a group was started, every
\* group before the current one has a result of step 4, a finished run has one
\* for every group, and from inside the loop the run reaches Done.
C13_GroupFailureIsContained ==
    /\ [](pc = "aborted" => \A k \in 1..Len(log) : log[k].stage \notin {4, 5, 6})
    /\ [](InLoop => \A g \in 1..Len(componentGroups) : g < i => Stage4Returned(g))
    /\ []((pc = "done" /\ discoveredAtoms # <<>>) =>
              \A g \in 1..Len(componentGroups) : Stage4Returned(g))
    /\ (InLoop ~> (pc = "done" /\ exitCode = 0))

\* a finished run whose first group failed after its fetch (null was returned)
\* and whose second group went through generation
C13_Witness ==
    /\ pc = "done"
    /\ Len(componentGroups) = 2
    /\ EventsFor(4, "fetch", componentGroups[1].representative) # {}
    /\ \E k \in EventsFor(4, "return", componentGroups[1].representative) :
          log[k].what = "null"
    /\ EventsFor(5, "completion", componentGroups[2].representative) # {}

\* discoverAtoms was called and has returned the empty list
DiscoveryFailed ==
    /\ \E k \in 1..Len(log) : log[k].stage = 3
    /\ pc \notin {"step3_figma", "step3_claude"}
    /\ discoveredAtoms = <<>>

\* C14: when discovery fails, discoverAtoms returns the empty list, no group
\* is formed, nothing of steps 4, 5 and 6 is requested or written, and the
\* run ends in Done with exit code 0.
C14_FailedDiscoveryEndsInDone ==
    /\ [](DiscoveryFailed =>
            /\ componentGroups = <<>>
            /\ pc \in {"loop", "done"}
            /\ exitCode # 1
            /\ \A k \in 1..Len(log) : log[k].stage \notin {4, 5, 6})
    /\ (DiscoveryFailed ~> (pc = "done" /\ exitCode = 0))

\* a finished run whose discovery reply could not be decoded or never came
C14_Witness ==
    /\ pc = "done" /\ exitCode = 0
    /\ DiscoveryFailed
    /\ \E k \in 1..Len(log) : log[k].stage = 3 /\ log[k].op = "completion"

\* C15: every result of the generation decoder is either skipped, with no
\* component code, CSS or usage example, or not skipped with a component body
\* that is present and not empty.
C15_ResultIsSkippedOrHasBody ==
    (fnPc = "generation" /\ fnOut # <<>>) =>
        \/ /\ fnOut[1].skipImplementation
           /\ fnOut[1].componentCode = Undefined
           /\ fnOut[1].updatedCSS = Undefined
           /\ fnOut[1].usageExample = Undefined
        \/ /\ ~fnOut[1].skipImplementation
           /\ fnOut[1].componentCode \notin {Undefined, <<>>}

\* the files step 5 wrote for the atom `subject`, in order
Stage5Writes(subject) ==
    LET ws == SelectSeq(log, LAMBDA e : /\ e.stage = 5
                                        /\ e.op = "write"
                                        /\ SameAtom(e.subject, subject))
    IN  [k \in 1..Len(ws) |-> ws[k].what]

Range(s) == {s[k] : k \in 1..Len(s)}

\* C16: when generation is skipped, because the atom carries
\* skipImplementation, the decoded reply says skip, or the call or the
\* decoding failed, generateAtomicComponent writes no file but summary.json.
C16_SkippedWritesOnlySummary ==
    \A k \in 1..Len(log) :
        (log[k].stage = 5 /\ log[k].op = "return" /\ log[k].what \in {"skipped", "failed"}) =>
            /\ Range(Stage5Writes(log[k].subject)) \subseteq {"summary.json"}
            /\ <<"outputs.tsx", log[k].subject.name>> \notin files
            /\ <<"test-project.tsx", log[k].subject.name>> \notin files

\* generateAtomicComponent was called with an atom that carries
\* skipImplementation and has written the skip marker
C16_Witness ==
    /\ pc = "loop"
    /\ tokenVariantData = <<>>
    /\ claudeRequests = 0
    /\ \E k \in 1..Len(log) :
          /\ log[k].op = "return" /\ log[k].what = "skipped"
          /\ log[k].subject.skipImplementation
          /\ Stage5Writes(log[k].subject) = <<"summary.json">>

\* the results of step 5 that are not skipped
NotSkipped == {k \in 1..Len(log) : /\ log[k].stage = 5
                                   /\ log[k].op = "return"
                                   /\ log[k].what = "not skipped"}

Count(s, x) == Cardinality({k \in 1..Len(s) : s[k] = x})

C18_OneCompletionCallPerStage ==
    /\ \A stage \in {2, 3, 6} :
          Cardinality({k \in 1..Len(log) : log[k].stage = stage /\ log[k].op = "completion"}) <= 1
    /\ \A k \in 1..Len(log) :
          /\ log[k].stage = 4 => Cardinality(EventsFor(4, "completion", log[k].subject)) <= 1
          /\ (log[k].stage = 4 /\ log[k].op = "return" /\ log[k].what = "data") =>
                Cardinality(EventsFor(4, "completion", log[k].subject)) = 1
          /\ log[k].stage = 5 => Cardinality(EventsFor(5, "completion", log[k].subject)) <= 1

-----------------------------------------------------------------------------
(* Claims about grouping and naming *)

\* C19: every group returned by groupAtomsByType has at least one instance,
\* its representative is its first instance, and no two groups have the same
\* type.
C19_GroupsAreNonEmptyAndDistinct ==
    fnPc = "grouped" =>
        /\ \A g \in 1..Len(fnOut) :
              /\ Len(fnOut[g].instances) >= 1
              /\ fnOut[g].representative = fnOut[g].instances[1]
              /\ \A k \in 1..Len(fnOut[g].instances) : fnOut[g].instances[k].type = fnOut[g].type
        /\ \A g, h \in 1..Len(fnOut) : g # h => fnOut[g].type # fnOut[h].type

\* two groups came out of three atoms: one type seen twice, another once
C19_Witness ==
    /\ fnPc = "grouped"
    /\ Len(fnIn) = 3
    /\ Len(fnOut) = 2
    /\ Len(fnOut[1].instances) = 2

IsSeparator(c) == IsSpace(c) \/ c \in {"-", "_"}

\* the characters of the name that are letters or digits, the first letter of
\* each word capitalized and every other character as it is in the name;
\* words are what white space, hyphens and underscores separate
KeptPositions(name) == {k \in 1..Len(name) : IsAlphaNumeric(name[k])}

AtWordStart(name, k) == k = 1 \/ IsSeparator(name[k - 1])

NthOf(S, n) == CHOOSE k \in S : Cardinality({j \in S : j < k}) = n - 1

\* C20: the derived name is the display name without white space and without
\* non-alphanumeric characters, the first letter of each word capitalized and
\* the other characters of the word unchanged.
C20_CapitalizeAndKeepTheRest ==
    fnPc = "derived" =>
        fnOut = [n \in 1..Cardinality(KeptPositions(fnIn)) |->
                    LET k == NthOf(KeptPositions(fnIn), n)
                    IN  IF AtWordStart(fnIn, k) THEN toUpperCase(fnIn[k]) ELSE fnIn[k]]

\* C20 as amended: the derived name is a function of the display name alone:
\* the name is cut into words at white space, hyphens and underscores, the
\* first character of each word is put in upper case and the other characters
\* of the word in lower case, and then every character that is not a letter
\* or a digit is removed.
C20_CapitalizeAndLowerTheRest ==
    fnPc = "derived" =>
        fnOut = [n \in 1..Cardinality(KeptPositions(fnIn)) |->
                    LET k == NthOf(KeptPositions(fnIn), n)
                    IN  IF AtWordStart(fnIn, k) THEN toUpperCase(fnIn[k])
                        ELSE toLowerCase(fnIn[k])]

\* a name of two words, the second with an upper-case letter after its first
C20_Witness ==
    /\ fnPc = "derived"
    /\ fnIn = <<"a", "B", " ", "a">>
    /\ fnOut = <<"A", "b", "A">>

-----------------------------------------------------------------------------
(* Claims about the prompt loader *)

\* the value of the variable `key`, <<>> when it is not supplied
ValueOf(variables, key) ==
    LET hits == {k \in 1..Len(variables) : variables[k].key = key}
    IN  IF hits = {} THEN <<>> ELSE <<variables[CHOOSE k \in hits : TRUE].value>>

\* every placeholder of a supplied variable replaced by its value as given,
\* in one pass over the text
RECURSIVE Substituted(_, _)
Substituted(content, variables) ==
    IF content = <<>> THEN <<>>
    ELSE LET hits == {key \in {"A", "B"} : /\ Head(content) = Placeholder(key)
                                          /\ ValueOf(variables, key) # <<>>}
         IN  (IF hits = {} THEN <<Head(content)>>
              ELSE ValueOf(variables, CHOOSE key \in hits : TRUE)[1])
             \o Substituted(Tail(content), variables)

\* the lines after the first marker line
AfterFirstMarker(ls) ==
    LET first == Min({k \in 1..Len(ls) : ls[k] = <<AIPrompt>>})
    IN  joinLines(SubSeq(ls, first + 1, Len(ls)))

\* C21: for a template with a marker line and a body after it, loadPrompt
\* returns the text after the first marker line, later marker lines kept,
\* with every placeholder of a supplied variable replaced by the value as
\* given: nothing in the value is interpreted and an inserted value is not
\* scanned for placeholders.
C21_BodyWithValuesVerbatim ==
    (/\ fnPc = "prompt"
     /\ fnIn.file.readable
     /\ \E k \in 1..Len(fnIn.file.lines) : fnIn.file.lines[k] = <<AIPrompt>>
     /\ trim(AfterFirstMarker(fnIn.file.lines)) # <<>>) =>
        fnOut = <<trim(Substituted(trim(AfterFirstMarker(fnIn.file.lines)), fnIn.variables))>>

-----------------------------------------------------------------------------
(* Claims about the allow-list *)

\* C22: the allow-list is populated completely before the first stage of the
\* run starts, and no stage reads it before its population has finished.
C22_PopulatedBeforeFirstStage ==
    /\ pc \notin {"agent_new", "agent_run"} => fnPc = "loaded"
    /\ fnOut # <<>> => fnOut[1].loader = "loaded"

-----------------------------------------------------------------------------
(* Claims about termination *)

\* the number of events of kind op so far
Ops(op) == Cardinality({k \in 1..Len(log) : log[k].op = op})

\* C23: when every request settles, every run reaches Done or Aborted, and at
\* every moment the number of fetches is at most 2 + G, the number of
\* completion calls at most 3 + 3G and the number of file writes at most
\* 2 + 5G, where G is the number of component groups.
C23_RunEndsWithBoundedWork ==
    /\ <>(pc \in {"done", "aborted"})
    /\ [](Ops("fetch") <= 2 + Len(componentGroups))
    /\ [](Ops("completion") <= 3 + 3 * Len(componentGroups))
    /\ [](Ops("write") <= 2 + 5 * Len(componentGroups))
    /\ [](figmaRequests = Ops("fetch") /\ claudeRequests = Ops("completion"))

\* a finished run with two groups that used every call and write it may make
C23_Witness ==
    /\ pc = "done"
    /\ Len(componentGroups) = 2
    /\ Ops("fetch") = 4
    /\ Ops("completion") = 9
    /\ Ops("write") = 12

-----------------------------------------------------------------------------
(* Claims about section identification *)

SectionTypes == {"header", "hero", "navigation", "content", "footer", "section"}

\* identifySections has returned
SectionsIdentified == claudeRequests >= 1 /\ pc # "aborted"

\* C24: identifySections returns one section per child of the page, in the
\* order of the children, each with a type of SectionTypes, whether the reply
\* of the completion service or the basic analysis is used.
C24_OneSectionPerChild ==
    SectionsIdentified =>
        /\ Len(sections) = Len(pageData[1].children)
        /\ \A k \in 1..Len(sections) :
              /\ sections[k].id = pageData[1].children[k].id
              /\ sections[k].type \in SectionTypes

-----------------------------------------------------------------------------
(* Claims about the showcase *)

\* the project has a directory under atoms that holds its component file
HasComponentFiles(dir) ==
    /\ dir.atomsDirectoryExists
    /\ \E k \in 1..Len(dir.entries) :
          dir.entries[k].isDirectory /\ dir.entries[k].hasComponentFile

\* C25: generateComponentShowcase never throws, and for a project without
\* atomic component files it returns without a completion call and without
\* writing App.tsx.
C25_ShowcaseNeverThrows ==
    /\ fnOut # <<>> => ~fnOut[1].threw
    /\ (fnPc = "returned" /\ ~HasComponentFiles(fnIn)) =>
          claudeRequests = 0 /\ files = {}

\* the call returned at once for a project whose atoms directory holds only
\* entries without a component file
C25_Witness ==
    /\ fnPc = "returned"
    /\ fnIn.atomsDirectoryExists
    /\ fnIn.entries # <<>>
    /\ ~HasComponentFiles(fnIn)
    /\ fnOut = <<[threw |-> FALSE, components |-> <<>>]>>
    /\ claudeRequests = 0

-----------------------------------------------------------------------------
(* Claims about the grouping as a function *)

InstancesOf(atoms, t) == SelectSeq(atoms, LAMBDA a : a.type = t)

RECURSIVE SumOfInstances(_)
SumOfInstances(groups) ==
    IF groups = <<>> THEN 0
    ELSE Len(Head(groups).instances) + SumOfInstances(Tail(groups))

\* C27: the groups partition the input: the types of the groups are distinct,
\* the group of a type holds exactly the atoms of that type in input order,
\* every atom's type has a group, and the instance counts add up to the
\* length of the input.
C27_GroupsPartitionTheInput ==
    fnPc = "grouped" =>
        /\ \A g, h \in 1..Len(fnOut) : g # h => fnOut[g].type # fnOut[h].type
        /\ \A g \in 1..Len(fnOut) :
              fnOut[g].instances = InstancesOf(fnIn, fnOut[g].type)
        /\ \A k \in 1..Len(fnIn) :
              \E g \in 1..Len(fnOut) : fnOut[g].type = fnIn[k].type
        /\ SumOfInstances(fnOut) = Len(fnIn)

\* three atoms of two types, interleaved, fall into two groups
C27_Witness ==
    /\ fnPc = "grouped"
    /\ Len(fnIn) = 3
    /\ fnIn[1].type = fnIn[3].type
    /\ fnIn[1].type # fnIn[2].type
    /\ fnIn[1] # fnIn[3]
    /\ Len(fnOut) = 2
    /\ fnOut[1].instances = <<fnIn[1], fnIn[3]>>
    /\ fnOut[2].instances = <<fnIn[2]>>

-----------------------------------------------------------------------------
(* Claims about the directories of an atom *)

\* C28: for every atom the directory that holds analysis.json is the directory
\* that holds the component file and summary.json.
C28_OneDirectoryPerAtom ==
    fnPc = "saved" =>
        \A g \in 1..Len(fnOut) : fnOut[g].analysisDir = fnOut[g].componentDir

\* C30: two different groups never write under the same directory: the names
\* derived from the representatives of different groups are different.
C30_GroupsWriteToDifferentDirectories ==
    fnPc = "saved" =>
        \A g, h \in 1..Len(fnOut) :
            g # h => /\ fnOut[g].componentDir # fnOut[h].componentDir
                     /\ fnOut[g].analysisDir # fnOut[h].analysisDir

-----------------------------------------------------------------------------
(* Claims about the showcase stage of a run *)

\* extractAtomTokensAndVariants has returned data for some group
ExtractionSucceeded ==
    \E k \in 1..Len(log) :
        log[k].stage = 4 /\ log[k].op = "return" /\ log[k].what = "data"

\* generateShowcase has been called and has not returned
InShowcase == pc \in {"step6", "step6_claude"}

\* C29: the showcase stage is entered only from the end of the loop over the
\* groups and is never entered again; while it runs every group has its
\* result of step 4 and every extracted group its result of step 5; and at
\* the end of the loop it is entered exactly when extraction returned data
\* for at least one group.
C29_ShowcaseOnceAfterLastGroup ==
    /\ [][pc' = "step6" => (pc = "loop" /\ i > Len(componentGroups))]_vars
    /\ [][InShowcase => pc' \in {"step6_claude", "done"}]_vars
    /\ [][(pc \in {"done", "aborted"}) => (pc' = pc)]_vars
    /\ [](InShowcase =>
            /\ \A g \in 1..Len(componentGroups) : Stage4Returned(g)
            /\ \A k \in 1..Len(log) :
                  (log[k].stage = 4 /\ log[k].op = "return" /\ log[k].what = "data") =>
                      EventsFor(5, "return", log[k].subject) # {})
    /\ [][(pc = "loop" /\ i > Len(componentGroups)) =>
              ((pc' = "step6") <=> ExtractionSucceeded)]_vars

\* the showcase stage runs after two groups whose generation was skipped
C29_Witness ==
    /\ pc = "step6"
    /\ Len(componentGroups) = 2
    /\ \A g \in 1..2 :
          \E k \in EventsFor(5, "return", componentGroups[g].representative) :
              log[k].what = "skipped"
    /\ \A k \in 1..Len(log) : log[k].stage = 5 => log[k].what # "not skipped"

====
